---------------------------- MODULE Spec2Model ----------------------------
(***************************************************************************)
(* Model of the in-seat transfer core of PKPIntercityGTFS:                 *)
(*   util/disjoint_set.py            DisjointSet                           *)
(*   in_seat_transfers/generate.py   Connection, Block, the materializer   *)
(*   in_seat_transfers/assign_block_id.py   AssignBlockIds                 *)
(*   generate_in_seat_transfers.py   Block.deduplicate (earlier resolver)  *)
(*                                                                         *)
(* Python dicts and lists keep insertion order, so they are modelled as    *)
(* sequences; a dict is a sequence of [key, value] entries.                *)
(***************************************************************************)
EXTENDS Integers, Sequences, FiniteSets, TLC

VARIABLES
    \* DisjointSet under test
    ds,         \* [order, parents]: the keys of _parents in insertion order, and _parents
    merges,     \* history: the pairs {x, y} that some chain of merge calls links so far
    pcDS,       \* "off" | "run" | "hang" (a find_root loop that does not end)
    \* GenerateInSeatTransfers.execute, for one operating date
    by_day,             \* connections_by_day[date]: the rows read so far
    resolved,           \* Block.find_all: per connection group, what resolve yielded
    blocks,             \* the list `blocks` of execute
    inserted,           \* how many of them insert_block_trips has handled
    trip_copy_counters, \* self.trip_copy_counters
    db,                 \* rows created in the store: [trips, stop_times, transfers]
    pc,                 \* "off" | "read" | "insert" | "done" | "raised"
    \* AssignBlockIds.execute
    transfers,          \* the rows of the transfers table
    linked_trips,       \* the dict built by get_linked_trips, consumed by pick_next_block
    assigned_blocks,    \* the list of (block_id, trip_id) of assign_block_ids
    block_id_counter,   \* self.block_id_counter
    block_id,           \* the block_id column of the trips table
    pcA,                \* "off" | "load" | "assign" | "done" | "KeyError"
    \* Block.deduplicate of the earlier resolver
    all_blocks,         \* the blocks handed to deduplicate
    deduplicated,       \* what deduplicate returned for them
    deduplicated2,      \* what deduplicate returned for that result
    pcD,                \* "off" | "find" | "once" | "twice"
    \* Connection.read_all on a file of one row
    csv_row,            \* the row of KPD_Rozklad_Przelaczenia.csv
    days_arg,           \* the DateRange given as `days`
    read_pairs,         \* the (day, connection) pairs read_all yielded
    pcR,                \* "off" | "file" | "read"
    \* The static methods of Connection on a list of connections
    conn_list,          \* the connections given
    conn_out,           \* what the method returned
    pcC,                \* "off" | "list" | the method that was called
    \* TripStops.insert_stop called with rows in any order
    stop_calls,         \* the (idx, stop_id) arguments of the calls so far
    stop_index,         \* stop_sequence_by_id
    pcS,                \* "off" | "fill"
    \* FixTimeTravelTransfers.execute
    fx_transfers,       \* the rows of the transfers table
    fx_trips,           \* the trip_id values of the trips table
    fx_input,           \* the rows of the transfers table when execute was called
    fx_fixed,           \* the list fixed_transfers of execute
    fx_removed,         \* the list trips_to_remove of execute
    pcF                 \* "off" | "load" | "done" | the exception that ended execute

dsVars == <<ds, merges, pcDS>>

genVars == <<by_day, resolved, blocks, inserted, trip_copy_counters, db, pc>>

assignVars == <<transfers, linked_trips, assigned_blocks, block_id_counter, block_id, pcA>>

dedupVars == <<all_blocks, deduplicated, deduplicated2, pcD>>

readVars == <<csv_row, days_arg, read_pairs, pcR>>

connVars == <<conn_list, conn_out, pcC>>

stopsVars == <<stop_calls, stop_index, pcS>>

fixVars == <<fx_transfers, fx_trips, fx_input, fx_fixed, fx_removed, pcF>>

vars == <<ds, merges, pcDS, by_day, resolved, blocks, inserted, trip_copy_counters, db, pc,
          transfers, linked_trips, assigned_blocks, block_id_counter, block_id, pcA,
          all_blocks, deduplicated, deduplicated2, pcD,
          csv_row, days_arg, read_pairs, pcR,
          conn_list, conn_out, pcC,
          stop_calls, stop_index, pcS,
          fx_transfers, fx_trips, fx_input, fx_fixed, fx_removed, pcF>>

-----------------------------------------------------------------------------
(* Generic helpers on sequences                                            *)

Range(s) == {s[i] : i \in DOMAIN s}

RECURSIVE SeqOfSet(_)
\* The elements of a finite set of integers, smallest first.
SeqOfSet(S) ==
    IF S = {} THEN <<>>
    ELSE LET m == CHOOSE x \in S : \A y \in S : x <= y
         IN  <<m>> \o SeqOfSet(S \ {m})

-----------------------------------------------------------------------------
(* util/disjoint_set.py                                                    *)

\* Number of elements of the DisjointSet under test.
NElems == 4

Universe == 1..NElems

\* DisjointSet.__init__: every element is its own parent.
DisjointSet(elements) ==
    [order |-> elements, parents |-> [i \in Range(elements) |-> i]]

RECURSIVE climb(_, _, _)
\* First loop of find_root: follow _parents up to a self-parent.  `fuel` is the
\* number of steps a walk through distinct elements can take; a walk that uses
\* it up is inside a cycle of _parents and the loop never ends (ok = FALSE).
climb(parents, root, fuel) ==
    IF parents[root] = root THEN [ok |-> TRUE, root |-> root]
    ELSE IF fuel = 0 THEN [ok |-> FALSE, root |-> root]
    ELSE climb(parents, parents[root], fuel - 1)

RECURSIVE compress(_, _, _)
\* Second loop of find_root: path compression from item up to root.
compress(parents, item, root) ==
    IF parents[item] = root THEN parents
    ELSE compress([parents EXCEPT ![item] = root], parents[item], root)

\* Whether find_root(item) returns at all.
find_root_ends(parents, item) ==
    climb(parents, item, Cardinality(DOMAIN parents)).ok

\* find_root: the returned root and _parents afterwards.
find_root(parents, item) ==
    LET c == climb(parents, item, Cardinality(DOMAIN parents))
    IN  [root |-> c.root,
         parents |-> IF c.ok THEN compress(parents, item, c.root) ELSE parents]

\* A slip: the second element itself, not its root, is attached.
merge_without_root(d, x, y) ==
    LET fx == find_root(d.parents, x)
    IN  [d EXCEPT !.parents = [fx.parents EXCEPT ![y] = fx.root]]

\* merge: y's root is attached under x's root.
merge(d, x, y) ==
    LET fx == find_root(d.parents, x)
        fy == find_root(fx.parents, y)
    IN  [d EXCEPT !.parents = [fy.parents EXCEPT ![fy.root] = fx.root]]

\* Whether both find_root calls of merge(x, y) return.
merge_ends(d, x, y) ==
    /\ find_root_ends(d.parents, x)
    /\ find_root_ends(find_root(d.parents, x).parents, y)

\* by_root[root].append(elem) on a dict kept as a sequence of entries.
by_root_append(by_root, root, elem) ==
    IF \E i \in DOMAIN by_root : by_root[i].key = root
    THEN [i \in DOMAIN by_root |->
            IF by_root[i].key = root
            THEN [by_root[i] EXCEPT !.value = Append(@, elem)]
            ELSE by_root[i]]
    ELSE Append(by_root, [key |-> root, value |-> <<elem>>])

RECURSIVE get_groups_from(_, _, _)
\* The loop of get_groups from position i on: find_root compresses as it goes.
get_groups_from(d, i, by_root) ==
    IF i > Len(d.order) THEN [groups |-> by_root, ds |-> d]
    ELSE LET elem == d.order[i]
             f == find_root(d.parents, elem)
         IN  get_groups_from([d EXCEPT !.parents = f.parents], i + 1,
                             by_root_append(by_root, f.root, elem))

\* get_groups: [groups, ds]: the dict root -> members, and the set afterwards.
get_groups(d) == get_groups_from(d, 1, <<>>)

\* Whether every find_root call of get_groups returns.
get_groups_ends(d) == \A x \in Range(d.order) : find_root_ends(d.parents, x)

-----------------------------------------------------------------------------
(* The store before GenerateInSeatTransfers runs: the trips of one         *)
(* operating date and their stop-times, as LoadCSV leaves them.            *)
(* load_csv.py numbers stop_sequence by source row and skips the rows of   *)
(* non-commercial stops, so a trip's stop_sequence values can start above  *)
(* 0 and have gaps.  Rows are kept in ascending stop_sequence.             *)

Trips == {"T1", "T2", "T3"}

\* StopTime.PassengerExchange.NONE
PassengerExchange_NONE == 1

StopTimeRow(seq, stop, arr, dep, pickup, drop) ==
    [stop_sequence |-> seq, stop_id |-> stop, arrival_time |-> arr,
     departure_time |-> dep, pickup_type |-> pickup, drop_off_type |-> drop]

StopTimesTable ==
    [T1 |-> << StopTimeRow(0, "S1", 100, 105, 0, 1),
               StopTimeRow(1, "S2", 200, 205, 1, 0),
               StopTimeRow(2, "S3", 300, 305, 0, 0) >>,
     T2 |-> << StopTimeRow(0, "S2", 210, 215, 0, 0),
               StopTimeRow(2, "S1", 310, 315, 0, 1),
               StopTimeRow(3, "S3", 410, 415, 1, 0) >>,
     T3 |-> << StopTimeRow(1, "S1", 50, 55, 1, 0),
               StopTimeRow(2, "S3", 70, 75, 0, 0),
               StopTimeRow(3, "S1", 90, 95, 0, 0) >>]

\* stops.name, joined in by _get_stop_name
StopNames == [S1 |-> "Alfa", S2 |-> "Beta", S3 |-> "Gamma"]

\* "SELECT ... FROM stop_times WHERE trip_id = ?"
query_stop_times(trip_id) ==
    IF trip_id \in DOMAIN StopTimesTable THEN StopTimesTable[trip_id] ELSE <<>>

-----------------------------------------------------------------------------
(* in_seat_transfers/generate.py: TripSlice, TripStops                     *)

\* to_stop_sequence = None: up to the last stop-time of the trip
None == -1

TripSlice(trip_id, from_stop_sequence, to_stop_sequence) ==
    [trip_id |-> trip_id, from_stop_sequence |-> from_stop_sequence,
     to_stop_sequence |-> to_stop_sequence]

\* TripSlice.select_stop_times
select_stop_times(leg) ==
    LET Selected(row) ==
            /\ (leg.from_stop_sequence > 0 => row.stop_sequence >= leg.from_stop_sequence)
            /\ (leg.to_stop_sequence # None => row.stop_sequence <= leg.to_stop_sequence)
    IN  SelectSeq(query_stop_times(leg.trip_id), Selected)

\* TripStops.insert_stop: dict.setdefault(stop_id, idx)
insert_stop(stop_sequence_by_id, idx, stop_id) ==
    IF stop_id \in DOMAIN stop_sequence_by_id THEN stop_sequence_by_id
    ELSE stop_sequence_by_id @@ (stop_id :> idx)

RECURSIVE insert_stops_from(_, _, _)
insert_stops_from(rows, i, stop_sequence_by_id) ==
    IF i > Len(rows) THEN stop_sequence_by_id
    ELSE insert_stops_from(rows, i + 1,
            insert_stop(stop_sequence_by_id, rows[i].stop_sequence, rows[i].stop_id))

\* get_trips_for_connections: a TripStops for every trip a connection names.
get_trips_for_connections(connections) ==
    [t \in {connections[i].from_trip_id : i \in DOMAIN connections}
           \cup {connections[i].to_trip_id : i \in DOMAIN connections} |->
        [trip_id |-> t,
         stop_sequence_by_id |-> insert_stops_from(query_stop_times(t), 1, <<>>)]]

\* A slice that does not stop at the switch stop but runs to the end of the trip.
up_to_the_end(t, stop) == TripSlice(t.trip_id, 0, None)

\* TripStops.up_to / TripStops.starting_at, for a stop id
up_to(t, stop) == TripSlice(t.trip_id, 0, t.stop_sequence_by_id[stop])

starting_at(t, stop) == TripSlice(t.trip_id, t.stop_sequence_by_id[stop], None)

-----------------------------------------------------------------------------
(* in_seat_transfers/generate.py: Connection                               *)

Connection(from_trip_id, to_trip_id, at_stop_id, carriages, id) ==
    [from_trip_id |-> from_trip_id, to_trip_id |-> to_trip_id,
     at_stop_id |-> at_stop_id, carriages |-> carriages, id |-> id]

is_from_valid(c, trips) ==
    /\ c.from_trip_id \in DOMAIN trips
    /\ c.at_stop_id \in DOMAIN trips[c.from_trip_id].stop_sequence_by_id

is_to_valid(c, trips) ==
    /\ c.to_trip_id \in DOMAIN trips
    /\ c.at_stop_id \in DOMAIN trips[c.to_trip_id].stop_sequence_by_id

\* Connection.is_valid
is_valid(c, trips) == is_from_valid(c, trips) /\ is_to_valid(c, trips)

RECURSIVE deduplicate_keeping_min(_, _, _)
\* The loop of Connection.deduplicate, had it kept the least id of a key.
deduplicate_keeping_min(connections, i, unique) ==
    IF i > Len(connections) THEN unique
    ELSE LET c == connections[i]
             key == <<c.from_trip_id, c.to_trip_id, c.at_stop_id>>
         IN  IF \E j \in DOMAIN unique : unique[j].key = key
             THEN deduplicate_keeping_min(connections, i + 1,
                    [j \in DOMAIN unique |->
                        IF unique[j].key = key
                        THEN [unique[j] EXCEPT !.carriages = @ \cup c.carriages,
                                               !.id = IF c.id < @ THEN c.id ELSE @]
                        ELSE unique[j]])
             ELSE deduplicate_keeping_min(connections, i + 1,
                    Append(unique, [key |-> key, id |-> c.id, carriages |-> c.carriages]))

RECURSIVE deduplicate_from(_, _, _)
\* The loop of Connection.deduplicate: unique is the dict key -> (id, carriages)
deduplicate_from(connections, i, unique) ==
    IF i > Len(connections) THEN unique
    ELSE LET c == connections[i]
             key == <<c.from_trip_id, c.to_trip_id, c.at_stop_id>>
         IN  IF \E j \in DOMAIN unique : unique[j].key = key
             THEN deduplicate_from(connections, i + 1,
                    [j \in DOMAIN unique |->
                        IF unique[j].key = key
                        THEN [unique[j] EXCEPT !.carriages = @ \cup c.carriages]
                        ELSE unique[j]])
             ELSE deduplicate_from(connections, i + 1,
                    Append(unique, [key |-> key, id |-> c.id, carriages |-> c.carriages]))

\* Connection.deduplicate
Connection_deduplicate(connections) ==
    LET unique == deduplicate_from(connections, 1, <<>>)
    IN  [j \in DOMAIN unique |->
            Connection(unique[j].key[1], unique[j].key[2], unique[j].key[3],
                       unique[j].carriages, unique[j].id)]

\* build_index raises ValueError when two items have the same key.
build_index_fails(keys) == \E i, j \in DOMAIN keys : i # j /\ keys[i] = keys[j]

trips_intersect(a, b) ==
    \/ a.from_trip_id = b.from_trip_id
    \/ a.from_trip_id = b.to_trip_id
    \/ a.to_trip_id = b.from_trip_id
    \/ a.to_trip_id = b.to_trip_id

carriages_intersect(a, b) == a.carriages \cap b.carriages # {}

\* The test of group_related, had it looked at the trips alone.
trips_intersect_only(a, b) == trips_intersect(a, b)

\* The test of group_related: the pair shares a trip and a carriage.
are_related(a, b) == trips_intersect(a, b) /\ carriages_intersect(a, b)

RECURSIVE relate(_, _, _, _)
\* group_related's loop over combinations(by_conn_id.values(), 2), from the
\* pair (i, j) on.
relate(related, cs, i, j) ==
    IF i >= Len(cs) THEN related
    ELSE IF j > Len(cs) THEN relate(related, cs, i + 1, i + 2)
    ELSE relate(IF are_related(cs[i], cs[j])
                THEN merge(related, cs[i].id, cs[j].id)
                ELSE related,
                cs, i, j + 1)

\* Connection.group_related: the groups in the order get_groups() yields them.
\* (Only called with unique connection ids; build_index_fails says when not.)
group_related(connections) ==
    LET by_conn_id == Connection_deduplicate(connections)
        related == relate(DisjointSet([i \in DOMAIN by_conn_id |-> by_conn_id[i].id]),
                          by_conn_id, 1, 2)
        groups == get_groups(related).groups
        ById(id) == CHOOSE c \in Range(by_conn_id) : c.id = id
    IN  [g \in DOMAIN groups |->
            [k \in DOMAIN groups[g].value |-> ById(groups[g].value[k])]]

Carriages == {"1", "2"}

\* The orders in which iterating a frozenset of carriages can yield them (the
\* order follows the strings' hashes, which differ from process to process).
HashOrders == {<<"1", "2">>, <<"2", "1">>}

\* sorted(carriages): the carriage numbers in lexicographic order
sorted(carriages) ==
    LET In(x) == x \in carriages IN SelectSeq(<<"1", "2">>, In)

\* iter(frozenset) under a hash order
iterate(carriages, hash_order) ==
    LET In(x) == x \in carriages IN SelectSeq(hash_order, In)

RECURSIVE first_seen(_, _, _)
\* The keys of carriage_connections in insertion order.
first_seen(connections, i, hash_order) ==
    IF i > Len(connections) THEN <<>>
    ELSE LET rest == first_seen(connections, i + 1, hash_order)
             here == iterate(connections[i].carriages, hash_order)
             New(x) == x \notin Range(here)
         IN  here \o SelectSeq(rest, New)

\* The test of get_disjoint_carriage_sets, had it asked for one connection
\* in common.
share_a_connection(a_connections, b_connections) ==
    a_connections \cap b_connections # {}

\* a_connections == b_connections
same_connections(a_connections, b_connections) == a_connections = b_connections

RECURSIVE merge_same(_, _, _, _, _)
\* get_disjoint_carriage_sets' loop over combinations(items, 2).
merge_same(carriages, keys, conns_of, i, j) ==
    IF i >= Len(keys) THEN carriages
    ELSE IF j > Len(keys) THEN merge_same(carriages, keys, conns_of, i + 1, i + 2)
    ELSE merge_same(IF same_connections(conns_of[keys[i]], conns_of[keys[j]])
                    THEN merge(carriages, keys[i], keys[j])
                    ELSE carriages,
                    keys, conns_of, i, j + 1)

\* Connection.get_disjoint_carriage_sets
get_disjoint_carriage_sets(connections, hash_order) ==
    LET keys == first_seen(connections, 1, hash_order)
        carriage_connections ==
            [k \in Range(keys) |->
                {connections[i].id : i \in {n \in DOMAIN connections :
                                                k \in connections[n].carriages}}]
    IN  merge_same(DisjointSet(keys), keys, carriage_connections, 1, 2)

-----------------------------------------------------------------------------
(* in_seat_transfers/generate.py: Block                                    *)

Block(legs, carriages) == [legs |-> legs, carriages |-> carriages]

NoBlock == Block(<<>>, {})

\* What a resolve_* call ends with: a Block, a NonLinearBlock (with what
\* NonLinearBlock.from_connections records), or a KeyError from a lookup of a
\* missing trip or stop.
Returned(block) == [kind |-> "Block", block |-> block, error |-> <<>>]

Raised(kind, reason, carriages, connections) ==
    [kind |-> kind, block |-> NoBlock,
     error |-> [reason |-> reason,
                carriages |-> carriages,
                trip_ids |-> {connections[i].from_trip_id : i \in DOMAIN connections}
                             \cup {connections[i].to_trip_id : i \in DOMAIN connections},
                connections |-> {connections[i].id : i \in DOMAIN connections}]]

KeyError == [kind |-> "KeyError", block |-> NoBlock, error |-> <<>>]

\* Block.resolve_single
resolve_single(c, trips) ==
    IF ~is_valid(c, trips) THEN KeyError
    ELSE Returned(Block(<< up_to(trips[c.from_trip_id], c.at_stop_id),
                          starting_at(trips[c.to_trip_id], c.at_stop_id) >>,
                        c.carriages))

\* Candidates from which only the first connection's to_trip_id is discarded.
discard_first_only(connections) ==
    {connections[i].from_trip_id : i \in DOMAIN connections}
        \ {connections[1].to_trip_id}

\* Block._find_initial_trip_in_linear_block: the candidates left; the method
\* returns the only one, or None when there is not exactly one.
initial_trip_candidates(connections) ==
    {connections[i].from_trip_id : i \in DOMAIN connections}
        \ {connections[i].to_trip_id : i \in DOMAIN connections}

\* The test of the walk, had it let a step stay at the stop it joined at.
goes_strictly_backwards(start, end) == start > end

\* The test of the walk for a step that does not move forward on the trip.
goes_backwards(start, end) == start >= end

RECURSIVE walk(_, _, _, _)
\* The while loop of resolve_linear: by_from is what is left of
\* connections_by_from_trip_id, conn the connection just followed.
walk(by_from, conn, legs, trips) ==
    IF ~\E n \in by_from : n.from_trip_id = conn.to_trip_id
    THEN [kind |-> "Block", legs |-> legs, conn |-> conn, by_from |-> by_from]
    ELSE LET next == CHOOSE n \in by_from : n.from_trip_id = conn.to_trip_id
         IN  IF \/ next.from_trip_id \notin DOMAIN trips
                \/ conn.at_stop_id \notin DOMAIN trips[next.from_trip_id].stop_sequence_by_id
                \/ next.at_stop_id \notin DOMAIN trips[next.from_trip_id].stop_sequence_by_id
             THEN [kind |-> "KeyError", legs |-> legs, conn |-> conn, by_from |-> by_from]
             ELSE LET t == trips[next.from_trip_id]
                      start == t.stop_sequence_by_id[conn.at_stop_id]
                      end == t.stop_sequence_by_id[next.at_stop_id]
                  IN  IF goes_backwards(start, end)
                      THEN [kind |-> "NonLinearBlock", legs |-> legs, conn |-> conn,
                            by_from |-> by_from]
                      ELSE walk(by_from \ {next}, next,
                                Append(legs, TripSlice(t.trip_id, start, end)), trips)

\* Block.resolve_linear
resolve_linear(connections, trips, carriages) ==
    IF build_index_fails([i \in DOMAIN connections |-> connections[i].from_trip_id])
    THEN Raised("NonLinearBlock", "from_trip_id is not unique", carriages, connections)
    ELSE IF Cardinality(initial_trip_candidates(connections)) # 1
    THEN Raised("NonLinearBlock", "no initial trip", carriages, connections)
    ELSE LET first_trip == CHOOSE t \in initial_trip_candidates(connections) : TRUE
             conn == CHOOSE c \in Range(connections) : c.from_trip_id = first_trip
         IN  IF ~is_from_valid(conn, trips) THEN KeyError
             ELSE LET w == walk(Range(connections) \ {conn}, conn,
                                << up_to(trips[conn.from_trip_id], conn.at_stop_id) >>,
                                trips)
                  IN  IF w.kind = "KeyError" THEN KeyError
                      ELSE IF w.kind = "NonLinearBlock"
                      THEN Raised("NonLinearBlock", "goes backwards", carriages, connections)
                      ELSE IF ~is_to_valid(w.conn, trips) THEN KeyError
                      ELSE IF w.by_from # {}
                      THEN Raised("NonLinearBlock", "is disjoint", carriages, connections)
                      ELSE Returned(Block(
                              Append(w.legs,
                                     starting_at(trips[w.conn.to_trip_id], w.conn.at_stop_id)),
                              carriages))

\* What Block.resolve and Block.find_all yield: the blocks, the NonLinearBlock
\* errors logged, and the exception that escaped ("" when none did).
Outcome(yielded, logged, escaped) ==
    [blocks |-> yielded, logged |-> logged, escaped |-> escaped]

\* All the connections of the group, whatever they carry.
connections_of_group(connections, root_carriage) == connections

\* The connections resolve hands to resolve_linear for a carriage class.
connections_of(connections, root_carriage) ==
    LET Uses(c) == root_carriage \in c.carriages IN SelectSeq(connections, Uses)

\* A handler that lets every exception through.
caught_nothing(r) == FALSE

\* except NonLinearBlock as e: e.log(logger)
caught(r) == r.kind = "NonLinearBlock"

\* The loop of Block.resolve over carriage_sets.items(): resolve_linear for
\* each carriage class in turn, up to the first exception that is not caught.
resolve_each(connections, trips, carriage_sets) ==
    LET results == [i \in DOMAIN carriage_sets |->
                        resolve_linear(connections_of(connections, carriage_sets[i].key),
                                       trips, Range(carriage_sets[i].value))]
        Escapes(i) == results[i].kind # "Block" /\ ~caught(results[i])
        stop == IF \E i \in DOMAIN results : Escapes(i)
                THEN CHOOSE i \in DOMAIN results :
                        Escapes(i) /\ \A j \in 1..(i - 1) : ~Escapes(j)
                ELSE Len(results) + 1
        handled == SubSeq(results, 1, stop - 1)
        IsBlock(r) == r.kind = "Block"
        IsError(r) == r.kind # "Block"
    IN  Outcome([i \in DOMAIN SelectSeq(handled, IsBlock) |->
                    SelectSeq(handled, IsBlock)[i].block],
                [i \in DOMAIN SelectSeq(handled, IsError) |->
                    SelectSeq(handled, IsError)[i].error],
                IF stop <= Len(results) THEN results[stop].kind ELSE "")

\* Block.resolve
resolve(connections, trips, hash_order) ==
    IF Len(connections) = 1
    THEN LET r == resolve_single(connections[1], trips)
         IN  IF r.kind = "Block" THEN Outcome(<< r.block >>, <<>>, "")
             ELSE Outcome(<<>>, <<>>, r.kind)
    ELSE resolve_each(connections, trips,
                      get_groups(get_disjoint_carriage_sets(connections, hash_order)).groups)

RECURSIVE find_all_from(_, _, _, _, _)
\* The loop of Block.find_all over the connection groups: the outcome of
\* resolve for each group, up to the first exception that escapes.
find_all_from(groups, trips, hash_order, i, found) ==
    IF i > Len(groups) THEN found
    ELSE LET r == resolve(groups[i], trips, hash_order)
         IN  IF r.escaped # "" THEN Append(found, [group |-> groups[i], out |-> r])
             ELSE find_all_from(groups, trips, hash_order, i + 1,
                                Append(found, [group |-> groups[i], out |-> r]))

\* Block.find_all: per connection group, the group and what resolve yields.
find_all(connections, trips, hash_order) ==
    IF build_index_fails([i \in DOMAIN Connection_deduplicate(connections) |->
                            Connection_deduplicate(connections)[i].id])
    THEN << [group |-> <<>>, out |-> Outcome(<<>>, <<>>, "ValueError")] >>
    ELSE find_all_from(group_related(connections), trips, hash_order, 1, <<>>)

\* The connections of the date, had none been filtered out.
all_connections(connections, trips) == connections

\* filter(lambda t: t.is_valid(trips), connections)
valid_connections(connections, trips) ==
    LET Valid(c) == is_valid(c, trips) IN SelectSeq(connections, Valid)

\* GenerateInSeatTransfers.get_blocks_for_day
get_blocks_for_day(connections, hash_order) ==
    LET trips == get_trips_for_connections(connections)
    IN  find_all(valid_connections(connections, trips), trips, hash_order)

RECURSIVE Flatten(_)
Flatten(seqs) == IF seqs = <<>> THEN <<>> ELSE Head(seqs) \o Flatten(Tail(seqs))

-----------------------------------------------------------------------------
(* in_seat_transfers/generate.py: GenerateInSeatTransfers, the materializer *)

\* Transfer.Type.IN_SEAT (transfer_type = 4)
IN_SEAT == 4

\* The copy id of a trip, had it left the counter out.
CopyIdWithoutCounter(trip_id, n) == <<trip_id, "_C", 0>>

\* f"{trip_id}_C{n}"
CopyId(trip_id, n) == <<trip_id, "_C", n>>

\* _get_stop_name: the rows the query finds (one_must raises on none)
get_stop_name_rows(trip_id, stop_sequence) ==
    LET rows == query_stop_times(trip_id)
        At(row) == row.stop_sequence = stop_sequence
    IN  IF stop_sequence = None
        THEN (IF rows = <<>> THEN <<>> ELSE << rows[Len(rows)] >>)
        ELSE SelectSeq(rows, At)

\* The first-leg test shifted to the second leg.
is_second(i, b) == i = 2

\* is_first / is_last of insert_block_trips, for the i-th leg counted from 1
is_first(i, b) == i = 1

\* The last-leg test shifted to the leg before the last one.
is_last_but_one(i, b) == i = Len(b.legs) - 1

\* is_last = i == len(b.legs) - 1, with i counted from 0 there
is_last(i, b) == i = Len(b.legs)

\* The stop-times of the copy `id` of a leg: boundary times forced, rows
\* renumbered from 0 and retargeted, pick-up / drop-off forbidden.
copy_stop_times(leg, id, first, last) ==
    LET selected == select_stop_times(leg)
        st1 == [selected EXCEPT ![1].arrival_time = selected[1].departure_time]
        st2 == [st1 EXCEPT ![Len(st1)].departure_time = st1[Len(st1)].arrival_time]
    IN  [k \in DOMAIN st2 |->
            [trip_id |-> id,
             stop_sequence |-> k - 1,
             stop_id |-> st2[k].stop_id,
             arrival_time |-> st2[k].arrival_time,
             departure_time |-> st2[k].departure_time,
             pickup_type |-> IF last THEN PassengerExchange_NONE ELSE st2[k].pickup_type,
             drop_off_type |-> IF first THEN PassengerExchange_NONE ELSE st2[k].drop_off_type]]

\* The transfer of a leg, had it pointed from the copy back to the one before.
transfer_backwards(stop_times, previous_trip_id, id) ==
    [from_stop_id |-> stop_times[1].stop_id,
     to_stop_id |-> stop_times[1].stop_id,
     from_trip_id |-> id,
     to_trip_id |-> previous_trip_id[1],
     type |-> IN_SEAT]

\* Transfer(from_stop_id=stop_times[0].stop_id, to_stop_id=stop_times[0].stop_id,
\*          from_trip_id=previous_trip_id, to_trip_id=trip.id, type=IN_SEAT)
in_seat_transfer(stop_times, previous_trip_id, id) ==
    [from_stop_id |-> stop_times[1].stop_id,
     to_stop_id |-> stop_times[1].stop_id,
     from_trip_id |-> previous_trip_id[1],
     to_trip_id |-> id,
     type |-> IN_SEAT]

RECURSIVE insert_legs(_, _, _, _, _)
\* The loop of insert_block_trips from the i-th leg on.  st is
\* [db, trip_copy_counters, raised, fails_at]; previous_trip_id is <<>> for
\* None; fails_at is the leg at which the store refuses db.create, 0 when it
\* refuses none.
insert_legs(st, b, i, previous_trip_id, headsign) ==
    IF i > Len(b.legs) THEN st
    ELSE LET leg == b.legs[i]
         IN  IF leg.trip_id \notin DOMAIN StopTimesTable
             THEN [st EXCEPT !.raised = "retrieve_must"]
             ELSE IF select_stop_times(leg) = <<>>
             THEN [st EXCEPT !.raised = "IndexError",
                             !.trip_copy_counters[leg.trip_id] = @ + 1]
             ELSE IF i = st.fails_at
             THEN [st EXCEPT !.raised = "db.create",
                             !.trip_copy_counters[leg.trip_id] = @ + 1]
             ELSE LET id == CopyId(leg.trip_id, st.trip_copy_counters[leg.trip_id])
                      trip == [trip_id |-> id, headsign |-> headsign,
                               carriages |-> sorted(b.carriages)]
                      stop_times == copy_stop_times(leg, id, is_first(i, b), is_last(i, b))
                      transfer == in_seat_transfer(stop_times, previous_trip_id, id)
                  IN  insert_legs(
                        [st EXCEPT !.trip_copy_counters[leg.trip_id] = @ + 1,
                                   !.db.trips = Append(@, trip),
                                   !.db.stop_times = @ \o stop_times,
                                   !.db.transfers = IF previous_trip_id # <<>>
                                                    THEN Append(@, transfer) ELSE @],
                        b, i + 1, << id >>, headsign)

\* GenerateInSeatTransfers.insert_block_trips
insert_block_trips(st, b) ==
    LET last == b.legs[Len(b.legs)]
        named == get_stop_name_rows(last.trip_id, last.to_stop_sequence)
    IN  IF named = <<>> THEN [st EXCEPT !.raised = "one_must"]
        ELSE insert_legs(st, b, 1, <<>>, StopNames[named[1].stop_id])

EmptyDb == [trips |-> <<>>, stop_times |-> <<>>, transfers |-> <<>>]

\* The rows of the store, had the loop of execute run outside a transaction.
without_transaction(st) == st.db

\* with r.db.transaction(): the rows of the store after a round of the loop.
\* An exception leaves the block and rolls back every row created in it.
transaction(st) == IF st.raised = "" THEN st.db ELSE EmptyDb

\* How many connections the date has at most.
MaxConnections == 3

\* The stops the connections of the date switch at.
AtStops == {"S1", "S2"}

\* The rows of the date: two different trains of the store, a stop, a
\* non-empty carriage list (split(",") never yields an empty list) and the
\* row's ID_przelaczenia, here the row's number.
ConnectionRows(id) ==
    {Connection(f, t, s, c, id) :
        f \in Trips, t \in Trips, s \in AtStops, c \in (SUBSET Carriages) \ {{}}}

GenIdle ==
    /\ by_day = <<>> /\ resolved = <<>> /\ blocks = <<>> /\ inserted = 0
    /\ trip_copy_counters = [t \in Trips |-> 0] /\ db = EmptyDb /\ pc = "off"

DSIdle == ds = DisjointSet(<<>>) /\ merges = {} /\ pcDS = "off"

\* The trip_id values of the trips table that AssignBlockIds works on.
TripIds == {"A", "B", "C", "D"}

\* The block_id of a trip that was never given one.
NULL == "NULL"

AssignIdle ==
    /\ transfers = <<>> /\ linked_trips = <<>> /\ assigned_blocks = <<>>
    /\ block_id_counter = 0 /\ block_id = [t \in TripIds |-> NULL] /\ pcA = "off"

DedupIdle ==
    all_blocks = <<>> /\ deduplicated = <<>> /\ deduplicated2 = <<>> /\ pcD = "off"

ReadIdle == csv_row = <<>> /\ days_arg = <<>> /\ read_pairs = <<>> /\ pcR = "off"

ConnIdle == conn_list = <<>> /\ conn_out = <<>> /\ pcC = "off"

StopsIdle == stop_calls = <<>> /\ stop_index = <<>> /\ pcS = "off"

FixIdle ==
    /\ fx_transfers = <<>> /\ fx_trips = {} /\ fx_input = <<>>
    /\ fx_fixed = <<>> /\ fx_removed = <<>> /\ pcF = "off"

InitGen ==
    /\ by_day = <<>> /\ resolved = <<>> /\ blocks = <<>> /\ inserted = 0
    /\ trip_copy_counters = [t \in Trips |-> 0] /\ db = EmptyDb /\ pc = "read"
    /\ DSIdle /\ AssignIdle /\ DedupIdle /\ ReadIdle /\ ConnIdle /\ StopsIdle /\ FixIdle

\* get_connections_by_day: by_day[day].append(connection)
ReadConnection ==
    /\ pc = "read"
    /\ Len(by_day) < MaxConnections
    /\ \E c \in ConnectionRows(Len(by_day) + 1) :
        /\ c.from_trip_id # c.to_trip_id
        /\ by_day' = Append(by_day, c)
    /\ UNCHANGED <<resolved, blocks, inserted, trip_copy_counters, db, pc>>
    /\ UNCHANGED <<dsVars, assignVars, dedupVars, readVars, connVars, stopsVars, fixVars>>

\* The list comprehension of execute over what get_blocks_for_day yields; an
\* exception that escapes from it ends execute.
collect_blocks(yielded) ==
    /\ resolved' = yielded
    /\ blocks' = Flatten([i \in DOMAIN yielded |-> yielded[i].out.blocks])
    /\ pc' = IF \E i \in DOMAIN yielded : yielded[i].out.escaped # ""
             THEN "raised" ELSE "insert"

\* execute up to the transaction: the blocks of the date
GetBlocksForDay ==
    /\ pc = "read"
    /\ \E hash_order \in HashOrders :
            collect_blocks(get_blocks_for_day(by_day, hash_order))
    /\ UNCHANGED <<by_day, inserted, trip_copy_counters, db>>
    /\ UNCHANGED <<dsVars, assignVars, dedupVars, readVars, connVars, stopsVars, fixVars>>

\* One round of the loop of execute: insert_block_trips(r.db, block).  The
\* store may refuse a row of any leg; an exception leaves the transaction,
\* which rolls the created rows back.
InsertBlockTrips ==
    /\ pc = "insert"
    /\ inserted < Len(blocks)
    /\ \E fails_at \in 0..Len(blocks[inserted + 1].legs) :
        LET st == insert_block_trips(
                    [db |-> db, trip_copy_counters |-> trip_copy_counters,
                     raised |-> "", fails_at |-> fails_at],
                    blocks[inserted + 1])
        IN  /\ db' = transaction(st)
            /\ trip_copy_counters' = st.trip_copy_counters
            /\ pc' = IF st.raised = "" THEN "insert" ELSE "raised"
    /\ inserted' = inserted + 1
    /\ UNCHANGED <<by_day, resolved, blocks>>
    /\ UNCHANGED <<dsVars, assignVars, dedupVars, readVars, connVars, stopsVars, fixVars>>

\* The transaction of execute commits.
Commit ==
    /\ pc = "insert"
    /\ inserted = Len(blocks)
    /\ pc' = "done"
    /\ UNCHANGED <<by_day, resolved, blocks, inserted, trip_copy_counters, db>>
    /\ UNCHANGED <<dsVars, assignVars, dedupVars, readVars, connVars, stopsVars, fixVars>>

NextGen == ReadConnection \/ GetBlocksForDay \/ InsertBlockTrips \/ Commit

SpecGen == InitGen /\ [][NextGen]_vars

-----------------------------------------------------------------------------
(* get_blocks_for_day for a date whose rows name a train that has no
   stop-times in the store, too *)

MaxDayConnections == 3

\* The trains the rows of the date name: those of the store and one more.
DayTrains == Trips \cup {"T4"}

InitDay == InitGen

\* get_connections_by_day: by_day[day].append(connection)
ReadAnyConnection ==
    /\ pc = "read"
    /\ Len(by_day) < MaxDayConnections
    /\ \E from \in DayTrains, to \in DayTrains, at \in AtStops,
          carriages \in (SUBSET Carriages) \ {{}} :
        /\ from # to
        /\ by_day' = Append(by_day, Connection(from, to, at, carriages, Len(by_day) + 1))
    /\ UNCHANGED <<resolved, blocks, inserted, trip_copy_counters, db, pc>>
    /\ UNCHANGED <<dsVars, assignVars, dedupVars, readVars, connVars, stopsVars, fixVars>>

NextDay == ReadAnyConnection \/ GetBlocksForDay

SpecDay == InitDay /\ [][NextDay]_vars

-----------------------------------------------------------------------------
(* A DisjointSet driven by arbitrary merge / find_root / get_groups calls  *)

\* The elements that the chains recorded in M link to x.
ClassIn(M, x) == {x} \cup {z \in Universe : {x, z} \in M}

\* The history after merge(x, y): every element linked to x is now linked to
\* every element linked to y.
Chained(M, x, y) ==
    M \cup {{a, b} : a \in ClassIn(M, x) \cup ClassIn(M, y),
                     b \in ClassIn(M, x) \cup ClassIn(M, y)}

InitDS ==
    /\ ds = DisjointSet(SeqOfSet(Universe))
    /\ merges = {{x} : x \in Universe}
    /\ pcDS = "run"
    /\ GenIdle /\ AssignIdle /\ DedupIdle /\ ReadIdle /\ ConnIdle /\ StopsIdle /\ FixIdle

DSMerge ==
    /\ pcDS = "run"
    /\ \E x, y \in Universe :
        /\ ds' = IF merge_ends(ds, x, y) THEN merge(ds, x, y) ELSE ds
        /\ pcDS' = IF merge_ends(ds, x, y) THEN "run" ELSE "hang"
        /\ merges' = Chained(merges, x, y)
    /\ UNCHANGED <<genVars, assignVars, dedupVars, readVars, connVars, stopsVars, fixVars>>

DSFindRoot ==
    /\ pcDS = "run"
    /\ \E x \in Universe :
        /\ ds' = [ds EXCEPT !.parents = find_root(ds.parents, x).parents]
        /\ pcDS' = IF find_root_ends(ds.parents, x) THEN "run" ELSE "hang"
        /\ UNCHANGED merges
    /\ UNCHANGED <<genVars, assignVars, dedupVars, readVars, connVars, stopsVars, fixVars>>

DSGetGroups ==
    /\ pcDS = "run"
    /\ ds' = IF get_groups_ends(ds) THEN get_groups(ds).ds ELSE ds
    /\ pcDS' = IF get_groups_ends(ds) THEN "run" ELSE "hang"
    /\ UNCHANGED merges
    /\ UNCHANGED <<genVars, assignVars, dedupVars, readVars, connVars, stopsVars, fixVars>>

NextDS == DSMerge \/ DSFindRoot \/ DSGetGroups

SpecDS == InitDS /\ [][NextDS]_vars

-----------------------------------------------------------------------------
(* C8                                                                      *)

\* x and y are linked by a chain of merge calls.
Linked(x, y) == x = y \/ {x, y} \in merges

GroupsNow == get_groups(ds).groups

GroupOf(x) == {i \in DOMAIN GroupsNow : \E j \in DOMAIN GroupsNow[i].value : GroupsNow[i].value[j] = x}

\* C8: after any sequence of merge and find_root calls, every find_root ends,
\* get_groups() lists every element of the universe exactly once, in the group
\* keyed by its root, and two elements share a group exactly when a chain of
\* merges links them.
C8_GroupsPartition ==
    /\ pcDS # "hang"
    /\ get_groups_ends(ds)
    /\ \A x \in Universe :
        /\ Cardinality(GroupOf(x)) = 1
        /\ \A i \in GroupOf(x) :
            /\ Cardinality({j \in DOMAIN GroupsNow[i].value : GroupsNow[i].value[j] = x}) = 1
            /\ GroupsNow[i].key = find_root(ds.parents, x).root
    /\ \A i \in DOMAIN GroupsNow : Range(GroupsNow[i].value) \subseteq Universe
    /\ \A i, j \in DOMAIN GroupsNow : GroupsNow[i].key = GroupsNow[j].key => i = j
    /\ \A x, y \in Universe : (GroupOf(x) = GroupOf(y)) <=> Linked(x, y)

\* merge(1,2); merge(2,3) happened, 1 and 3 share a group, 4 is alone, and a
\* path has been compressed (3 hangs directly under the root of a chain).
C8_Witness ==
    /\ {1, 2} \in merges /\ {2, 3} \in merges /\ {1, 3} \in merges
    /\ GroupOf(1) = GroupOf(3)
    /\ GroupOf(4) # GroupOf(1)
    /\ Cardinality({x \in Universe : ds.parents[x] # x}) = 2

-----------------------------------------------------------------------------
(* in_seat_transfers/assign_block_id.py: AssignBlockIds                    *)

\* The values of the transfer_type column in the table: recommended, in-seat.
TransferTypes == {0, IN_SEAT}

\* A row of the transfers table.
Transfer(from_trip_id, to_trip_id, transfer_type) ==
    [from_trip_id |-> from_trip_id, to_trip_id |-> to_trip_id,
     transfer_type |-> transfer_type]

\* SELECT from_trip_id, to_trip_id FROM transfers WHERE transfer_type = 4
query_in_seat(rows) ==
    LET InSeat(row) == row.transfer_type = IN_SEAT IN SelectSeq(rows, InSeat)

\* key in dict
has_key(d, key) == \E i \in DOMAIN d : d[i].key = key

\* dict[key]
value_of(d, key) == d[CHOOSE i \in DOMAIN d : d[i].key = key].value

\* defaultdict(list): linked_trips[a].append(b)
append_to(d, a, b) ==
    IF has_key(d, a)
    THEN [i \in DOMAIN d |-> IF d[i].key = a THEN [d[i] EXCEPT !.value = Append(@, b)]
                                              ELSE d[i]]
    ELSE Append(d, [key |-> a, value |-> << b >>])

RECURSIVE link_from(_, _, _)
\* The loop of get_linked_trips over the rows of the query, from row i on.
link_from(rows, i, linked) ==
    IF i > Len(rows) THEN linked
    ELSE link_from(rows, i + 1,
                   append_to(append_to(linked, rows[i].from_trip_id, rows[i].to_trip_id),
                             rows[i].to_trip_id, rows[i].from_trip_id))

\* A map in which every trip of the table has an entry.
get_linked_trips_of_all(rows) ==
    LET every == CHOOSE q \in [1..Cardinality(TripIds) -> TripIds] :
                        Range(q) = TripIds
    IN  link_from(query_in_seat(rows), 1,
                  [i \in DOMAIN every |-> [key |-> every[i], value |-> <<>>]])

\* AssignBlockIds.get_linked_trips
get_linked_trips(rows) == link_from(query_in_seat(rows), 1, <<>>)

\* dict.pop(key) on a key that is present: the dict without it.
without_key(d, key) == LET Other(e) == e.key # key IN SelectSeq(d, Other)

RECURSIVE expand(_, _, _)
\* The while loop of pick_next_block.  linked_trips.pop(trip) raises KeyError
\* when the trip has already been taken out of the dict.
expand(linked, queue, block) ==
    IF queue = <<>> THEN [raised |-> FALSE, block |-> block, linked_trips |-> linked]
    ELSE LET trip == queue[Len(queue)]
             rest == SubSeq(queue, 1, Len(queue) - 1)
             with == block \cup {trip}
             New(l) == l \notin with
         IN  IF ~has_key(linked, trip)
             THEN [raised |-> TRUE, block |-> with, linked_trips |-> linked]
             ELSE expand(without_key(linked, trip),
                         rest \o SelectSeq(value_of(linked, trip), New), with)

\* pick_next_block on a dict that is not empty: popitem takes the entry that
\* was inserted last.
pick_next_block(linked) ==
    LET last == linked[Len(linked)]
    IN  expand(SubSeq(linked, 1, Len(linked) - 1), last.value, {last.key})

\* get_next_block_id: the id taken for the counter value n.
get_next_block_id(n) == ToString(n)

\* The orders in which `for trip in block` can visit the set.
Orders(block) ==
    {q \in [1..Cardinality(block) -> block] : Range(q) = block}

RECURSIVE update_from(_, _, _)
\* UPDATE trips SET block_id = ? WHERE trip_id = ?, for the pairs from n on.
update_from(column, pairs, n) ==
    IF n > Len(pairs) THEN column
    ELSE update_from([column EXCEPT ![pairs[n][2]] = pairs[n][1]], pairs, n + 1)

\* save_block_ids: the update for every pair in turn.
save_block_ids(column, pairs) == update_from(column, pairs, 1)

-----------------------------------------------------------------------------
(* AssignBlockIds.execute on a transfers table of up to MaxTransfers rows  *)

MaxTransfers == 3

InitAssign ==
    /\ transfers = <<>> /\ linked_trips = <<>> /\ assigned_blocks = <<>>
    /\ block_id_counter = 0 /\ block_id = [t \in TripIds |-> NULL] /\ pcA = "load"
    /\ DSIdle /\ GenIdle /\ DedupIdle /\ ReadIdle /\ ConnIdle /\ StopsIdle /\ FixIdle

\* An earlier pipeline step leaves one more transfer between two trips in the store;
\* the table holds no row twice.
AddTransfer ==
    /\ pcA = "load"
    /\ Len(transfers) < MaxTransfers
    /\ \E a \in TripIds, b \in TripIds, type \in TransferTypes :
        /\ a # b
        /\ Transfer(a, b, type) \notin Range(transfers)
        /\ transfers' = Append(transfers, Transfer(a, b, type))
    /\ UNCHANGED <<linked_trips, assigned_blocks, block_id_counter, block_id, pcA>>
    /\ UNCHANGED <<dsVars, genVars, dedupVars, readVars, connVars, stopsVars, fixVars>>

\* execute, up to the call of assign_block_ids: clear and get_linked_trips.
GetLinkedTrips ==
    /\ pcA = "load"
    /\ block_id_counter' = 0
    /\ linked_trips' = get_linked_trips(transfers)
    /\ pcA' = "assign"
    /\ UNCHANGED <<transfers, assigned_blocks, block_id>>
    /\ UNCHANGED <<dsVars, genVars, dedupVars, readVars, connVars, stopsVars, fixVars>>

\* One round of the while loop of assign_block_ids.  A KeyError in
\* pick_next_block leaves execute before anything is saved.
AssignNextBlock ==
    /\ pcA = "assign"
    /\ linked_trips # <<>>
    /\ LET r == pick_next_block(linked_trips)
       IN  /\ linked_trips' = r.linked_trips
           /\ IF r.raised
              THEN /\ pcA' = "KeyError"
                   /\ UNCHANGED <<assigned_blocks, block_id_counter>>
              ELSE /\ \E order \in Orders(r.block) :
                        assigned_blocks' = assigned_blocks \o
                            [i \in DOMAIN order |->
                                <<get_next_block_id(block_id_counter), order[i]>>]
                   /\ block_id_counter' = block_id_counter + 1
                   /\ pcA' = "assign"
    /\ UNCHANGED <<transfers, block_id>>
    /\ UNCHANGED <<dsVars, genVars, dedupVars, readVars, connVars, stopsVars, fixVars>>

\* The end of the while loop, and save_block_ids.
SaveBlockIds ==
    /\ pcA = "assign"
    /\ linked_trips = <<>>
    /\ block_id' = save_block_ids(block_id, assigned_blocks)
    /\ pcA' = "done"
    /\ UNCHANGED <<transfers, linked_trips, assigned_blocks, block_id_counter>>
    /\ UNCHANGED <<dsVars, genVars, dedupVars, readVars, connVars, stopsVars, fixVars>>

NextAssign == AddTransfer \/ GetLinkedTrips \/ AssignNextBlock \/ SaveBlockIds

SpecAssign == InitAssign /\ [][NextAssign]_vars

-----------------------------------------------------------------------------
(* generate_in_seat_transfers.py: Block.issubset, issuperset, deduplicate  *)

\* Block.issubset: the legs of self are a contiguous part of the legs of o.
issubset(self, o) ==
    IF Len(self.legs) > Len(o.legs) THEN FALSE
    ELSE \E offset \in 0..(Len(o.legs) - Len(self.legs)) :
            self.legs = SubSeq(o.legs, offset + 1, offset + Len(self.legs))

\* Block.issuperset
issuperset(self, o) == issubset(o, self)

\* The inner for loop of deduplicate for one block: the index of the first
\* remembered block at which the loop breaks, 0 when it runs to its else.
first_break(block, remembered) ==
    LET hits == {i \in DOMAIN remembered :
                    issubset(block, remembered[i]) \/ issuperset(block, remembered[i])}
    IN  IF hits = {} THEN 0 ELSE CHOOSE i \in hits : \A j \in hits : i <= j

\* One round of the outer loop of deduplicate.
remember(remembered, block) ==
    LET i == first_break(block, remembered)
    IN  IF i = 0 THEN Append(remembered, block)
        ELSE IF issubset(block, remembered[i]) THEN remembered
        ELSE [remembered EXCEPT ![i] = block]

RECURSIVE deduplicate_loop(_, _, _)
\* The outer loop of deduplicate from the n-th block on.
deduplicate_loop(bs, n, remembered) ==
    IF n > Len(bs) THEN remembered
    ELSE deduplicate_loop(bs, n + 1, remember(remembered, bs[n]))

\* Block.deduplicate
deduplicate(bs) == deduplicate_loop(bs, 1, <<>>)

-----------------------------------------------------------------------------
(* Block.deduplicate on a list of up to MaxBlocks blocks, and on its result *)

MaxBlocks == 3

\* The legs blocks are made of.
Legs == {TripSlice("T1", 0, 1), TripSlice("T2", 0, 2), TripSlice("T3", 1, None)}

\* Blocks of two or three different legs.
SomeBlocks ==
    {Block(legs, carriages) :
        legs \in {q \in [1..2 -> Legs] \cup [1..3 -> Legs] :
                    \A i, j \in DOMAIN q : i # j => q[i] # q[j]},
        carriages \in {{"1"}, {"2"}}}

InitDedup ==
    /\ all_blocks = <<>> /\ deduplicated = <<>> /\ deduplicated2 = <<>> /\ pcD = "find"
    /\ DSIdle /\ GenIdle /\ AssignIdle /\ ReadIdle /\ ConnIdle /\ StopsIdle /\ FixIdle

\* find_all yields one more block.
FindBlock ==
    /\ pcD = "find"
    /\ Len(all_blocks) < MaxBlocks
    /\ \E b \in SomeBlocks : all_blocks' = Append(all_blocks, b)
    /\ UNCHANGED <<deduplicated, deduplicated2, pcD>>
    /\ UNCHANGED <<dsVars, genVars, assignVars, readVars, connVars, stopsVars, fixVars>>

\* find_all_deduplicated: deduplicate(find_all(...))
Deduplicate ==
    /\ pcD = "find"
    /\ deduplicated' = deduplicate(all_blocks)
    /\ pcD' = "once"
    /\ UNCHANGED <<all_blocks, deduplicated2>>
    /\ UNCHANGED <<dsVars, genVars, assignVars, readVars, connVars, stopsVars, fixVars>>

\* deduplicate called on what deduplicate returned.
DeduplicateAgain ==
    /\ pcD = "once"
    /\ deduplicated2' = deduplicate(deduplicated)
    /\ pcD' = "twice"
    /\ UNCHANGED <<all_blocks, deduplicated>>
    /\ UNCHANGED <<dsVars, genVars, assignVars, readVars, connVars, stopsVars, fixVars>>

NextDedup == FindBlock \/ Deduplicate \/ DeduplicateAgain

SpecDedup == InitDedup /\ [][NextDedup]_vars

-----------------------------------------------------------------------------
(* in_seat_transfers/generate.py: Connection.read_all, _parse_dates        *)
(* A str is modelled as the sequence of its characters.                    *)

Digits == <<"0", "1", "2", "3", "4", "5", "6", "7", "8", "9">>

\* The value of a decimal digit character.
digit_value(c) == (CHOOSE i \in DOMAIN Digits : Digits[i] = c) - 1

RECURSIVE int(_)
\* int(str) for a str of decimal digits
int(chars) ==
    IF chars = <<>> THEN 0
    ELSE 10 * int(SubSeq(chars, 1, Len(chars) - 1)) + digit_value(chars[Len(chars)])

\* str.partition(sep)[2]: what follows the first sep, "" when there is none
after_partition(chars, sep) ==
    IF \E i \in DOMAIN chars : chars[i] = sep
    THEN LET first == CHOOSE i \in DOMAIN chars :
                        chars[i] = sep /\ \A j \in 1..(i - 1) : chars[j] # sep
         IN  SubSeq(chars, first + 1, Len(chars))
    ELSE <<>>

\* str.replace(old, new) for single characters
replace(chars, old, new) ==
    [i \in DOMAIN chars |-> IF chars[i] = old THEN new ELSE chars[i]]

RECURSIVE split(_, _)
\* str.split(sep)
split(chars, sep) ==
    IF \E i \in DOMAIN chars : chars[i] = sep
    THEN LET first == CHOOSE i \in DOMAIN chars :
                        chars[i] = sep /\ \A j \in 1..(i - 1) : chars[j] # sep
         IN  << SubSeq(chars, 1, first - 1) >>
                \o split(SubSeq(chars, first + 1, Len(chars)), sep)
    ELSE << chars >>

\* Date(year, month, day)
Date(year, month, day) == [year |-> year, month |-> month, day |-> day]

\* f"{n:02}"
two_digits(n) == << Digits[(n \div 10) + 1], Digits[(n % 10) + 1] >>

\* Date.isoformat(): YYYY-MM-DD
isoformat(date) ==
    << Digits[(date.year \div 1000) + 1], Digits[((date.year \div 100) % 10) + 1],
       Digits[((date.year \div 10) % 10) + 1], Digits[(date.year % 10) + 1] >>
    \o << "-" >> \o two_digits(date.month) \o << "-" >> \o two_digits(date.day)

\* The order of dates.
not_after(a, b) ==
    \/ a.year < b.year
    \/ a.year = b.year /\ a.month < b.month
    \/ a.year = b.year /\ a.month = b.month /\ a.day <= b.day

\* days.__contains__ for a DateRange [start, end]; InfiniteDateRange has
\* every date.
contains(days, date) ==
    days.infinite \/ (not_after(days.start, date) /\ not_after(date, days.end))

\* The month a month_key stands for, when every key is taken for the month
\* of its number in the labeled year.
month_of_key_same_year(main_year, month_key) ==
    [year |-> main_year, month |-> month_key]

\* _parse_dates: the year and month a month_key stands for
month_of_key(main_year, month_key) ==
    IF month_key = 0 THEN [year |-> main_year - 1, month |-> 12]
    ELSE [year |-> main_year, month |-> month_key]

\* The inner loop of _parse_dates, had it counted the days from 0.
dates_of_month_from_zero(year, month, days_str) ==
    LET Set(day) == days_str[day] = "1"
        days == SelectSeq([i \in DOMAIN days_str |-> i], Set)
    IN  [n \in DOMAIN days |-> Date(year, month, days[n] - 1)]

\* The inner loop of _parse_dates: enumerate(days_str, start=1)
dates_of_month(year, month, days_str) ==
    LET Set(day) == days_str[day] = "1"
        days == SelectSeq([i \in DOMAIN days_str |-> i], Set)
    IN  [n \in DOMAIN days |-> Date(year, month, days[n])]

RECURSIVE parse_from(_, _, _)
\* The outer loop of _parse_dates, from month_key on.
parse_from(row, main_year, month_key) ==
    IF month_key > 12 THEN <<>>
    ELSE dates_of_month(month_of_key(main_year, month_key).year,
                        month_of_key(main_year, month_key).month,
                        row.mth[month_key])
         \o parse_from(row, main_year, month_key + 1)

\* Connection._parse_dates
parse_dates(row) == parse_from(row, int(after_partition(row.Timetable_no, "/")), 0)

\* Connection.with_trip_id_prefix
with_trip_id_prefix(c, prefix) ==
    [c EXCEPT !.from_trip_id = prefix \o @, !.to_trip_id = prefix \o @]

\* Connection.read_all for a file with one row: the (day, connection) pairs.
read_all(row, days) ==
    LET connection == Connection(replace(row.NrPoc1, "/", "-"),
                                 replace(row.NrPoc2, "/", "-"),
                                 row.objectID,
                                 Range(split(row.carriageNo, ",")),
                                 int(row.ID_przelaczenia))
        InDays(date) == contains(days, date)
        dates == SelectSeq(parse_dates(row), InDays)
    IN  [n \in DOMAIN dates |->
            [day |-> dates[n],
             connection |-> with_trip_id_prefix(connection,
                                                isoformat(dates[n]) \o << "_" >>)]]

-----------------------------------------------------------------------------
(* Connection.read_all on one row whose month fields are written one by one *)

MaxMaskLen == 2

MaxWritten == 2

\* A month field with no day set, as wide as the fields of the export.
ZeroMask == [i \in 1..32 |-> "0"]

\* The mth03 field of the documented example.
ExampleMask ==
    << "0", "0", "0", "0", "0", "0", "0", "0", "1", "0", "0", "0", "0", "0", "1", "1",
       "0", "0", "0", "0", "0", "1", "1", "0", "0", "0", "0", "0", "1", "1", "0", "0" >>

\* Month fields: the example, and every short field of '0' and '1'.
Masks == {ExampleMask} \cup UNION {[1..n -> {"0", "1"}] : n \in 0..MaxMaskLen}

\* The month keys whose fields get written.
WrittenKeys == {0, 2, 3, 12}

\* Timetable_no values.
Seasons == {<< "2", "0", "2", "4", "/", "2", "0", "2", "5" >>,
            << "2", "0", "2", "5", "/", "2", "0", "2", "6" >>}

\* Train numbers.
TrainNumbers == {<< "3", "8", "1", "0", "2", "/", "3" >>, << "5", "3", "0", "0" >>}

\* The values of `days`.
DayRanges ==
    {[infinite |-> TRUE, start |-> Date(1, 1, 1), end |-> Date(1, 1, 1)],
     [infinite |-> FALSE, start |-> Date(2025, 3, 1), end |-> Date(2025, 3, 15)],
     [infinite |-> FALSE, start |-> Date(2024, 12, 2), end |-> Date(2025, 2, 1)]}

\* The days of a month of the years in question (none of them a leap year
\* February).
days_in_month(month) ==
    IF month = 2 THEN 28 ELSE IF month \in {4, 6, 9, 11} THEN 30 ELSE 31

\* The export sets '1' only at days the month has.
marks_calendar_days(month_key, mask) ==
    \A d \in DOMAIN mask :
        mask[d] = "1" => d <= days_in_month(month_of_key(2025, month_key).month)

InitRead ==
    /\ \E season \in Seasons, nr1 \in TrainNumbers, nr2 \in TrainNumbers :
        csv_row = [NrPoc1 |-> nr1, NrPoc2 |-> nr2,
                   objectID |-> << "7", "1" >>,
                   carriageNo |-> << "1", "1", ",", "1", "2" >>,
                   ID_przelaczenia |-> << "4", "0", "7" >>,
                   Timetable_no |-> season,
                   mth |-> [k \in 0..12 |-> ZeroMask]]
    /\ days_arg = <<>> /\ read_pairs = <<>> /\ pcR = "file"
    /\ DSIdle /\ GenIdle /\ AssignIdle /\ DedupIdle /\ ConnIdle /\ StopsIdle /\ FixIdle

\* The export has one more month field with days set.
WriteMonth ==
    /\ pcR = "file"
    /\ Cardinality({k \in 0..12 : csv_row.mth[k] # ZeroMask}) < MaxWritten
    /\ \E k \in WrittenKeys, mask \in Masks :
        /\ csv_row.mth[k] = ZeroMask
        /\ marks_calendar_days(k, mask)
        /\ csv_row' = [csv_row EXCEPT !.mth[k] = mask]
    /\ UNCHANGED <<days_arg, read_pairs, pcR>>
    /\ UNCHANGED <<dsVars, genVars, assignVars, dedupVars, connVars, stopsVars, fixVars>>

\* list(Connection.read_all(f, days))
ReadAll ==
    /\ pcR = "file"
    /\ \E days \in DayRanges :
        /\ days_arg' = days
        /\ read_pairs' = read_all(csv_row, days)
    /\ pcR' = "read"
    /\ UNCHANGED csv_row
    /\ UNCHANGED <<dsVars, genVars, assignVars, dedupVars, connVars, stopsVars, fixVars>>

NextRead == WriteMonth \/ ReadAll

SpecRead == InitRead /\ [][NextRead]_vars

-----------------------------------------------------------------------------
(* The static methods of Connection, applied to a list of connections with
   unique ids in any order *)

MaxListed == 3

\* Some connections are given, with ids that are unique but in no order.
InitConn ==
    /\ conn_list = <<>> /\ conn_out = <<>> /\ pcC = "list"
    /\ DSIdle /\ GenIdle /\ AssignIdle /\ DedupIdle /\ ReadIdle /\ StopsIdle /\ FixIdle

ListConnection ==
    /\ pcC = "list"
    /\ Len(conn_list) < MaxListed
    /\ \E from \in Trips, to \in Trips, at \in AtStops,
          carriages \in (SUBSET Carriages) \ {{}}, id \in 1..MaxListed :
        /\ from # to
        /\ \A i \in DOMAIN conn_list : conn_list[i].id # id
        /\ conn_list' = Append(conn_list, Connection(from, to, at, carriages, id))
    /\ UNCHANGED <<conn_out, pcC>>
    /\ UNCHANGED <<dsVars, genVars, assignVars, dedupVars, readVars, stopsVars, fixVars>>

\* Connection.deduplicate(connections)
DeduplicateConnections ==
    /\ pcC = "list"
    /\ conn_out' = Connection_deduplicate(conn_list)
    /\ pcC' = "deduplicate"
    /\ UNCHANGED conn_list
    /\ UNCHANGED <<dsVars, genVars, assignVars, dedupVars, readVars, stopsVars, fixVars>>

\* list(Connection.group_related(connections))
GroupRelated ==
    /\ pcC = "list"
    /\ conn_out' = group_related(conn_list)
    /\ pcC' = "group_related"
    /\ UNCHANGED conn_list
    /\ UNCHANGED <<dsVars, genVars, assignVars, dedupVars, readVars, stopsVars, fixVars>>

\* Connection.get_disjoint_carriage_sets(connections).get_groups()
GetDisjointCarriageSets ==
    /\ pcC = "list"
    /\ \E hash_order \in HashOrders :
        conn_out' = get_groups(get_disjoint_carriage_sets(conn_list, hash_order)).groups
    /\ pcC' = "get_disjoint_carriage_sets"
    /\ UNCHANGED conn_list
    /\ UNCHANGED <<dsVars, genVars, assignVars, dedupVars, readVars, stopsVars, fixVars>>

NextConn ==
    ListConnection \/ DeduplicateConnections \/ GroupRelated \/ GetDisjointCarriageSets

SpecConn == InitConn /\ [][NextConn]_vars

-----------------------------------------------------------------------------
(* TripStops.insert_stop, fed the stop-time rows of one trip in the order the
   unordered query of get_trips_for_connections returns them *)

MaxStopSequence == 3

\* The stops of the trip.
TripStopIds == {"S1", "S2"}

InitStops ==
    /\ stop_calls = <<>> /\ stop_index = <<>> /\ pcS = "fill"
    /\ DSIdle /\ GenIdle /\ AssignIdle /\ DedupIdle /\ ReadIdle /\ ConnIdle /\ FixIdle

\* trip.insert_stop(idx, stop_id) for the next row of the query; a trip has
\* one row for a stop_sequence.
InsertStop ==
    /\ pcS = "fill"
    /\ \E idx \in 0..MaxStopSequence, stop_id \in TripStopIds :
        /\ \A n \in DOMAIN stop_calls : stop_calls[n].idx # idx
        /\ stop_calls' = Append(stop_calls, [idx |-> idx, stop_id |-> stop_id])
        /\ stop_index' = insert_stop(stop_index, idx, stop_id)
    /\ UNCHANGED pcS
    /\ UNCHANGED <<dsVars, genVars, assignVars, dedupVars, readVars, connVars, fixVars>>

NextStops == InsertStop

SpecStops == InitStops /\ [][NextStops]_vars

-----------------------------------------------------------------------------
(* in_seat_transfers/fix_timetravel.py: FixTimeTravelTransfers             *)

\* timedelta(days=1), in the seconds of a TimePoint
OneDay == 86400

\* The trip id f"{date}_{number}_{copy}" as the parts trip_id.split("_")
\* gives, the date counted in days.
CopyOfTrain(date, number, copy) == <<date, number, copy>>

\* TrainKey.extract: date_str, number, *_ = trip_id.split("_")
TrainKey_extract(trip_id) == [date |-> trip_id[1], number |-> trip_id[2]]

\* TrainKey.next_day
next_day(train) == [date |-> train.date + 1, number |-> train.number]

\* stop_times of the store: the least arrival_time and the greatest
\* departure_time of the trips of a train.  Train N2 leaves later on day 3.
TrainTimes ==
    [N1 |-> [start |-> 36000, end |-> 57600],
     N2 |-> [start |-> 14400, end |-> 64800],
     N3 |-> [start |-> 72000, end |-> 101000]]

\* _get_trip_start: SELECT min(arrival_time) FROM stop_times WHERE trip_id = ?
get_trip_start(trip_id) ==
    IF trip_id[2] = "N2" /\ trip_id[1] = 3 THEN 60000 ELSE TrainTimes[trip_id[2]].start

\* _get_trip_end: SELECT max(departure_time) FROM stop_times WHERE trip_id = ?
get_trip_end(trip_id) == TrainTimes[trip_id[2]].end

TimedTransfer(t) ==
    [t |-> t,
     from_trip_time |-> get_trip_end(t.from_trip_id),
     to_trip_time |-> get_trip_start(t.to_trip_id)]

\* TimedTransfer.key
TimedTransfer_key(timed) ==
    <<TrainKey_extract(timed.t.from_trip_id), TrainKey_extract(timed.t.to_trip_id)>>

\* TimedTransfer.time_travels
time_travels(timed) == timed.to_trip_time < timed.from_trip_time

\* get_transfers_to_process: the time-travelling in-seat transfers, in the
\* order of the query.
get_transfers_to_process(table) ==
    LET InSeat(t) == t.type = IN_SEAT
        in_seat == SelectSeq(table, InSeat)
        timed == [n \in DOMAIN in_seat |-> TimedTransfer(in_seat[n])]
    IN  SelectSeq(timed, time_travels)

\* transfers_by_key_pair.get(key_pair) for the dict {t.key: t for t in
\* transfers}: the last transfer with the key, in a list of one, or the empty
\* list for None.
transfers_by_key_pair_get(to_process, key_pair) ==
    LET with == {n \in DOMAIN to_process : TimedTransfer_key(to_process[n]) = key_pair}
    IN  IF with = {} THEN <<>>
        ELSE << to_process[CHOOSE n \in with : \A m \in with : m <= n] >>

\* next_would_be_valid
next_would_be_valid(t, next_t) ==
    /\ next_t # <<>>
    /\ t.t.from_stop_id = next_t[1].t.from_stop_id
    /\ t.t.to_stop_id = next_t[1].t.to_stop_id
    /\ t.from_trip_time < next_t[1].to_trip_time + OneDay

\* "_C" in trip_id: the id has a part for the copy.
is_copy(trip_id) == Len(trip_id) > 2

\* The second branch of execute, had it removed every to-trip that cannot be
\* relinked.
is_to_trip(trip_id, trips_used_in_from_transfers) == TRUE

\* t.t.to_trip_id not in trips_used_in_from_transfers
is_orphan(trip_id, trips_used_in_from_transfers) ==
    trip_id \notin trips_used_in_from_transfers

RECURSIVE relink_from(_, _, _, _)
\* The for loop of execute from the i-th transfer on; acc is
\* [fixed_transfers, trips_to_remove, raised].
relink_from(to_process, i, trips_used_in_from_transfers, acc) ==
    IF i > Len(to_process) THEN acc
    ELSE LET t == to_process[i]
             next_key == <<next_day(TrainKey_extract(t.t.from_trip_id)),
                           next_day(TrainKey_extract(t.t.to_trip_id))>>
             next_t == transfers_by_key_pair_get(to_process, next_key)
         IN  IF next_would_be_valid(t, next_t)
             THEN relink_from(to_process, i + 1, trips_used_in_from_transfers,
                    [acc EXCEPT !.fixed_transfers =
                        Append(@, [t.t EXCEPT !.to_trip_id = next_t[1].t.to_trip_id])])
             ELSE IF is_orphan(t.t.to_trip_id, trips_used_in_from_transfers)
             THEN IF ~is_copy(t.t.to_trip_id)
                  THEN [acc EXCEPT !.raised = "AssertionError"]
                  ELSE relink_from(to_process, i + 1, trips_used_in_from_transfers,
                         [acc EXCEPT !.trips_to_remove = Append(@, t.t.to_trip_id)])
             ELSE relink_from(to_process, i + 1, trips_used_in_from_transfers, acc)

\* The transaction of execute: the time-travelling transfers deleted by
\* their trip pair, the fixed ones created, the trips deleted; the transfers
\* table refers to trips ON DELETE CASCADE, so that deleting a trip deletes
\* the transfers that refer to it.
apply_fixes(table, trips, to_process, acc) ==
    LET pairs == {<<to_process[n].t.from_trip_id, to_process[n].t.to_trip_id>> :
                        n \in DOMAIN to_process}
        Kept(t) == <<t.from_trip_id, t.to_trip_id>> \notin pairs
        left == trips \ Range(acc.trips_to_remove)
        Refers(t) == t.from_trip_id \in left /\ t.to_trip_id \in left
    IN  [transfers |-> SelectSeq(SelectSeq(table, Kept) \o acc.fixed_transfers, Refers),
         trips |-> left,
         fixed_transfers |-> acc.fixed_transfers,
         trips_to_remove |-> acc.trips_to_remove,
         raised |-> ""]

\* What execute leaves when an exception ends it before the transaction.
fix_raised(table, trips, acc, exception) ==
    [transfers |-> table, trips |-> trips,
     fixed_transfers |-> acc.fixed_transfers,
     trips_to_remove |-> acc.trips_to_remove,
     raised |-> exception]

\* The rest of execute, once the loop has ended with acc.  The logger call
\* divides by len(transfers); a statement of the transaction that fails
\* rolls the transaction back.
fix_after_loop(table, trips, to_process, acc, fails) ==
    IF acc.raised # "" THEN fix_raised(table, trips, acc, acc.raised)
    ELSE IF Len(to_process) = 0 THEN fix_raised(table, trips, acc, "ZeroDivisionError")
    ELSE IF fails THEN fix_raised(table, trips, acc, "db.error")
    ELSE apply_fixes(table, trips, to_process, acc)

\* The loop of execute over the transfers to process.
fix_loop(table, trips, to_process, fails) ==
    fix_after_loop(table, trips, to_process,
                   relink_from(to_process, 1,
                               {table[n].from_trip_id : n \in DOMAIN table},
                               [fixed_transfers |-> <<>>, trips_to_remove |-> <<>>,
                                raised |-> ""]),
                   fails)

\* FixTimeTravelTransfers.execute
fix_execute(table, trips, fails) ==
    fix_loop(table, trips, get_transfers_to_process(table), fails)

-----------------------------------------------------------------------------
(* FixTimeTravelTransfers.execute on a store with up to MaxStoreTransfers
   transfers between the trip copies of three trains on consecutive days *)

MaxStoreTransfers == 3

LastDay == 3

Trains == {"N1", "N2", "N3"}

\* The trips of the store: one copy of every train on every day.
StoreTrips == {CopyOfTrain(date, number, "C0") : date \in 1..LastDay, number \in Trains}

InitFix ==
    /\ fx_transfers = <<>> /\ fx_trips = StoreTrips /\ fx_input = <<>>
    /\ fx_fixed = <<>> /\ fx_removed = <<>> /\ pcF = "load"
    /\ DSIdle /\ GenIdle /\ AssignIdle /\ DedupIdle /\ ReadIdle /\ ConnIdle /\ StopsIdle

\* The store has one more transfer, between two trips of a day that no
\* transfer joins yet, at one stop.
AddStoreTransfer ==
    /\ pcF = "load"
    /\ Len(fx_transfers) < MaxStoreTransfers
    /\ \E date \in 1..LastDay, a \in Trains, b \in Trains, stop \in AtStops,
          type \in TransferTypes :
        /\ a # b
        /\ \A n \in DOMAIN fx_transfers :
            <<fx_transfers[n].from_trip_id, fx_transfers[n].to_trip_id>>
                # <<CopyOfTrain(date, a, "C0"), CopyOfTrain(date, b, "C0")>>
        /\ fx_transfers' = Append(fx_transfers,
                [from_stop_id |-> stop, to_stop_id |-> stop,
                 from_trip_id |-> CopyOfTrain(date, a, "C0"),
                 to_trip_id |-> CopyOfTrain(date, b, "C0"),
                 type |-> type])
    /\ UNCHANGED <<fx_trips, fx_input, fx_fixed, fx_removed, pcF>>
    /\ UNCHANGED <<dsVars, genVars, assignVars, dedupVars, readVars, connVars, stopsVars>>

\* What execute leaves in the store and in its lists.
fix_ends(out) ==
    /\ fx_transfers' = out.transfers
    /\ fx_trips' = out.trips
    /\ fx_fixed' = out.fixed_transfers
    /\ fx_removed' = out.trips_to_remove
    /\ pcF' = IF out.raised = "" THEN "done" ELSE out.raised

\* FixTimeTravelTransfers.execute
FixExecute ==
    /\ pcF = "load"
    /\ fx_input' = fx_transfers
    /\ \E fails \in BOOLEAN : fix_ends(fix_execute(fx_transfers, fx_trips, fails))
    /\ UNCHANGED <<dsVars, genVars, assignVars, dedupVars, readVars, connVars, stopsVars>>

NextFix == AddStoreTransfer \/ FixExecute

SpecFix == InitFix /\ [][NextFix]_vars

-----------------------------------------------------------------------------
(* Properties of Block resolution and the materializer, under SpecGen       *)

\* The smallest stop_sequence at which the trip calls at the stop, read off
\* the stop_times table.
FirstIndex(trip_id, stop_id) ==
    LET at == {n \in DOMAIN StopTimesTable[trip_id] :
                    StopTimesTable[trip_id][n].stop_id = stop_id}
        first == CHOOSE n \in at : \A m \in at : n <= m
    IN  StopTimesTable[trip_id][first].stop_sequence

DayTrips == get_trips_for_connections(by_day)

Resolved == pc \in {"insert", "done", "raised"}

\* C1: a connection group of one valid connection T1 -> T2 at S resolves to
\* exactly one block of exactly two legs, T1 from stop-sequence 0 up to the
\* index of S in T1 and T2 from the index of S in T2 to its end, carrying the
\* connection's carriages; nothing is logged and nothing is raised.
C1_SingleConnectionBlock ==
    Resolved =>
        \A i \in DOMAIN resolved :
            Len(resolved[i].group) = 1 =>
                LET c == resolved[i].group[1]
                IN  resolved[i].out =
                        Outcome(<< Block(<< TripSlice(c.from_trip_id, 0,
                                                      FirstIndex(c.from_trip_id, c.at_stop_id)),
                                            TripSlice(c.to_trip_id,
                                                      FirstIndex(c.to_trip_id, c.at_stop_id),
                                                      None) >>,
                                         c.carriages) >>,
                                <<>>, "")

\* The date's only connection, T1 -> T2 at S1 with carriages 1 and 2, has been
\* resolved: T1 up to its first stop, T2 from stop-sequence 2 on.
C1_Witness ==
    /\ pc = "insert"
    /\ by_day = << Connection("T1", "T2", "S1", {"1", "2"}, 1) >>
    /\ blocks = << Block(<< TripSlice("T1", 0, 0), TripSlice("T2", 2, None) >>, {"1", "2"}) >>

\* Two connections with the same carriages, T1 -> T2 and T2 -> T1 at different stops.
IsCycle(g) ==
    /\ Len(g) = 2
    /\ g[1].from_trip_id = g[2].to_trip_id
    /\ g[1].to_trip_id = g[2].from_trip_id
    /\ g[1].at_stop_id # g[2].at_stop_id
    /\ g[1].carriages = g[2].carriages

RECURSIVE LegCount(_)
LegCount(bs) == IF bs = <<>> THEN 0 ELSE Len(Head(bs).legs) + LegCount(Tail(bs))

\* C2: a connection group that is such a cycle has one NonLinearBlock logged,
\* lets no exception escape and yields no block; when the date has nothing but
\* such cycles, execute creates no trip, stop-time or transfer row, and in any
\* case no more trip copies than the legs of the blocks of the other groups.
C2_CycleReported ==
    Resolved =>
        /\ \A i \in DOMAIN resolved :
                IsCycle(resolved[i].group) =>
                    /\ resolved[i].out.blocks = <<>>
                    /\ Len(resolved[i].out.logged) = 1
                    /\ resolved[i].out.escaped = ""
        /\ (\A i \in DOMAIN resolved : IsCycle(resolved[i].group)) =>
                /\ blocks = <<>>
                /\ db = EmptyDb
                /\ pc # "raised"
        /\ pc = "done" =>
                Len(db.trips) =
                    LegCount(Flatten([i \in DOMAIN resolved |->
                                IF IsCycle(resolved[i].group) THEN <<>>
                                ELSE resolved[i].out.blocks]))

\* execute has finished on a date whose connections are one such cycle: the
\* missing initial trip was logged and the store got no row.
C2_Witness ==
    /\ pc = "done"
    /\ Len(resolved) = 1
    /\ IsCycle(resolved[1].group)
    /\ resolved[1].out.logged[1].reason = "no initial trip"
    /\ db = EmptyDb

\* The ids of the connections of g that carry carriage a.
ConnectionsWith(g, a) == {g[n].id : n \in {m \in DOMAIN g : a \in g[m].carriages}}

\* The carriage classes of a group: carriages switched by the same connections.
ClassesOf(g) ==
    LET all == UNION {g[n].carriages : n \in DOMAIN g}
    IN  {{b \in all : ConnectionsWith(g, b) = ConnectionsWith(g, a)} : a \in all}

\* The date's valid connections that are not part of group g.
Outside(g) ==
    LET NotIn(c) == \A n \in DOMAIN g :
                        <<c.from_trip_id, c.to_trip_id, c.at_stop_id>> #
                        <<g[n].from_trip_id, g[n].to_trip_id, g[n].at_stop_id>>
    IN  SelectSeq(valid_connections(by_day, DayTrips), NotIn)

\* s without its i-th element.
Without(s, i) == [j \in 1..(Len(s) - 1) |-> IF j < i THEN s[j] ELSE s[j + 1]]

\* C3: NonLinearBlock never leaves Block.resolve.  In a group of several
\* connections each carriage class whose chain is linear contributes exactly
\* its block, each class whose chain is not linear contributes no block and
\* has its error logged.  The other groups of the date are resolved exactly
\* as they are when the connections of a group with a failed chain are absent.
C3_NonLinearIsSkipped ==
    Resolved =>
        /\ \A i \in DOMAIN resolved : resolved[i].out.escaped # "NonLinearBlock"
        /\ \A i \in DOMAIN resolved :
            LET g == resolved[i].group
                out == resolved[i].out
            IN  Len(g) >= 2 =>
                    /\ Len(out.blocks) + Len(out.logged) = Cardinality(ClassesOf(g))
                    /\ \A K \in ClassesOf(g) :
                        LET a == CHOOSE a \in K : TRUE
                            r == resolve_linear(connections_of(g, a), DayTrips, K)
                            mine == {n \in DOMAIN out.blocks : out.blocks[n].carriages = K}
                        IN  /\ r.kind = "Block" =>
                                /\ Cardinality(mine) = 1
                                /\ \A n \in mine : out.blocks[n] = r.block
                            /\ r.kind = "NonLinearBlock" =>
                                /\ mine = {}
                                /\ \E n \in DOMAIN out.logged : out.logged[n] = r.error
        /\ \A i \in DOMAIN resolved :
            resolved[i].out.logged # <<>> =>
                \E h \in HashOrders :
                    find_all(Outside(resolved[i].group), DayTrips, h) = Without(resolved, i)

\* A group of several connections in which one carriage class failed and
\* another one gave a block, which execute has materialized.
C3_Witness ==
    /\ pc = "done"
    /\ db.trips # <<>>
    /\ \E i \in DOMAIN resolved :
        /\ Len(resolved[i].group) >= 2
        /\ resolved[i].out.logged # <<>>
        /\ resolved[i].out.blocks # <<>>

\* The stop_sequence values a leg covers.
Covered(leg) ==
    {select_stop_times(leg)[n].stop_sequence : n \in DOMAIN select_stop_times(leg)}

FirstStop(leg) == select_stop_times(leg)[1].stop_id

LastStop(leg) == select_stop_times(leg)[Len(select_stop_times(leg))].stop_id

\* C4: in every block, two legs on the same original trip cover disjoint
\* stop-sequence ranges, and each leg ends at the stop id at which the next
\* leg starts, the at_stop_id of a connection between the two trips.
C4_LegsDisjointAndJoined ==
    \A k \in DOMAIN blocks :
        LET legs == blocks[k].legs
        IN  /\ \A i, j \in DOMAIN legs :
                    (i < j /\ legs[i].trip_id = legs[j].trip_id) =>
                        Covered(legs[i]) \cap Covered(legs[j]) = {}
            /\ \A i \in 1..(Len(legs) - 1) :
                    /\ LastStop(legs[i]) = FirstStop(legs[i + 1])
                    /\ \E n \in DOMAIN by_day :
                        /\ by_day[n].from_trip_id = legs[i].trip_id
                        /\ by_day[n].to_trip_id = legs[i + 1].trip_id
                        /\ by_day[n].at_stop_id = LastStop(legs[i])

\* The trip copies insert_block_trips created for the k-th block.
CopiesOf(k) ==
    SubSeq(db.trips, LegCount(SubSeq(blocks, 1, k - 1)) + 1,
                     LegCount(SubSeq(blocks, 1, k)))

\* The stop-times of a trip copy, in the order they were created.
StopTimesOf(id) ==
    LET Mine(row) == row.trip_id = id IN SelectSeq(db.stop_times, Mine)

\* C5: for every block handled by insert_block_trips, the copy of the first
\* leg has drop-off forbidden at its last stop-time, the copy of the last leg
\* has pick-up forbidden at its first stop-time, and the stop-times of the
\* copies of the legs in between have the pickup_type and drop_off_type of
\* their source rows.
C5_BoundaryFlags ==
    pc \in {"insert", "done"} =>
        \A k \in 1..inserted :
            LET legs == blocks[k].legs
                copies == CopiesOf(k)
                n == Len(legs)
                first == StopTimesOf(copies[1].trip_id)
                last == StopTimesOf(copies[n].trip_id)
            IN  /\ Len(copies) = n
                /\ first[Len(first)].drop_off_type = PassengerExchange_NONE
                /\ last[1].pickup_type = PassengerExchange_NONE
                /\ \A i \in 2..(n - 1) :
                    LET rows == StopTimesOf(copies[i].trip_id)
                        source == select_stop_times(legs[i])
                    IN  /\ Len(rows) = Len(source)
                        /\ \A r \in DOMAIN rows :
                            /\ rows[r].pickup_type = source[r].pickup_type
                            /\ rows[r].drop_off_type = source[r].drop_off_type

\* A block of three legs has been materialized and the copy of its middle leg
\* kept a forbidden pick-up and a forbidden drop-off of its source rows.
C5_Witness ==
    /\ pc = "done"
    /\ \E k \in 1..inserted :
        /\ Len(blocks[k].legs) = 3
        /\ \E r \in DOMAIN StopTimesOf(CopiesOf(k)[2].trip_id) :
                StopTimesOf(CopiesOf(k)[2].trip_id)[r].pickup_type = PassengerExchange_NONE
        /\ \E r \in DOMAIN StopTimesOf(CopiesOf(k)[2].trip_id) :
                StopTimesOf(CopiesOf(k)[2].trip_id)[r].drop_off_type = PassengerExchange_NONE

-----------------------------------------------------------------------------
(* Properties of AssignBlockIds, under SpecAssign                           *)

\* The pairs of trips joined by an in-seat transfer row.
InSeatPairs ==
    {{transfers[i].from_trip_id, transfers[i].to_trip_id} :
        i \in {j \in DOMAIN transfers : transfers[j].transfer_type = IN_SEAT}}

\* The trips that appear in some in-seat transfer.
InSeatTrips == UNION InSeatPairs

RECURSIVE Reach(_)
\* The trips joined to a trip of S by a chain of in-seat transfers.
Reach(S) ==
    LET more == S \cup {u \in TripIds : \E v \in S : {u, v} \in InSeatPairs}
    IN  IF more = S THEN S ELSE Reach(more)

\* execute has returned or has raised.
AssignEnded == pcA \in {"done", "KeyError"}

\* C6: once AssignBlockIds has run on the transfers of the store, two trips
\* that appear in in-seat transfers have the same block id exactly when a
\* chain of in-seat transfers joins them, so that the trips of different
\* components have different block ids.
C6_BlockIdsAreComponents ==
    AssignEnded =>
        \A a \in InSeatTrips, b \in InSeatTrips :
            (block_id[a] # NULL /\ block_id[a] = block_id[b]) <=> (b \in Reach({a}))

\* C7 as stated: after the pass, a trip that appears in no in-seat transfer
\* has a block id, and no other trip has that block id.
C7_SingletonBlockIds ==
    pcA = "done" =>
        \A t \in TripIds \ InSeatTrips :
            /\ block_id[t] # NULL
            /\ \A u \in TripIds \ {t} : block_id[u] # block_id[t]

\* C7, amended: after the pass, a trip that appears in no in-seat transfer
\* has no block id; the pass gives block ids to the trips of in-seat
\* transfers only.
C7_UnlinkedTripsKeepNull ==
    pcA = "done" =>
        \A t \in TripIds :
            (t \in InSeatTrips) <=> (block_id[t] # NULL)

\* The pass has ended on a store with a trip in no transfer at all, a trip
\* in a timed transfer only and two trips joined in-seat.
C7_Witness ==
    /\ pcA = "done"
    /\ \E t \in TripIds : \A i \in DOMAIN transfers :
            t \notin {transfers[i].from_trip_id, transfers[i].to_trip_id}
    /\ \E t \in TripIds \ InSeatTrips : \E i \in DOMAIN transfers :
            t \in {transfers[i].from_trip_id, transfers[i].to_trip_id}
    /\ \E t \in InSeatTrips : block_id[t] = "0"

-----------------------------------------------------------------------------
(* Properties of Block.deduplicate, under SpecDedup                         *)

\* How many times block b occurs in the list bs.
Occurrences(bs, b) == Cardinality({i \in DOMAIN bs : bs[i] = b})

\* C9: Block.deduplicate is idempotent: applied to its own result it
\* returns the same blocks, whatever their order.
C9_DeduplicateIdempotent ==
    pcD = "twice" =>
        \A b \in SomeBlocks : Occurrences(deduplicated2, b) = Occurrences(deduplicated, b)

\* C10: what Block.deduplicate returns holds no two different blocks A and B
\* such that the legs of A are a contiguous part of the legs of B.
C10_NoBlockInsideAnother ==
    pcD \in {"once", "twice"} =>
        \A i, j \in DOMAIN deduplicated :
            deduplicated[i] # deduplicated[j] =>
                ~issubset(deduplicated[i], deduplicated[j])

-----------------------------------------------------------------------------
(* Properties of the blocks of a date, under SpecGen                       *)

\* C11: among the blocks of a date that execute hands to insert_block_trips,
\* no block's legs are a contiguous part of the legs of another block.
C11_BlocksOfDayDeduplicated ==
    pc \in {"insert", "done"} =>
        \A i, j \in DOMAIN blocks :
            i # j => ~issubset(blocks[i], blocks[j])

-----------------------------------------------------------------------------
(* Properties of Connection.read_all, under SpecRead *)

\* The dates of the pairs that were read, in the order read.
ReadDates == [n \in DOMAIN read_pairs |-> read_pairs[n].day]

\* The row of the example: season 2024/2025, the example field in mth03 and
\* no day set in any other month; read with no restriction on the days.
ExampleRead ==
    /\ pcR = "read"
    /\ days_arg.infinite
    /\ csv_row.Timetable_no = << "2", "0", "2", "4", "/", "2", "0", "2", "5" >>
    /\ csv_row.mth[3] = ExampleMask
    /\ \A k \in (0..12) \ {3} : \A d \in DOMAIN csv_row.mth[k] : csv_row.mth[k][d] = "0"

\* C12, as stated: the example row yields dates that include 2025-03-09,
\* 2025-03-14 and 2025-03-15, and no date outside March 2025.
C12_ExampleDatesAsStated ==
    ExampleRead =>
        /\ \A day \in {9, 14, 15} : Date(2025, 3, day) \in Range(ReadDates)
        /\ \A date \in Range(ReadDates) : date.year = 2025 /\ date.month = 3

\* C12, amended: the example row yields exactly the 9th, 15th, 16th, 22nd,
\* 23rd, 29th and 30th of March 2025, in this order.
C12_ExampleDates ==
    ExampleRead =>
        ReadDates = << Date(2025, 3, 9), Date(2025, 3, 15), Date(2025, 3, 16),
                       Date(2025, 3, 22), Date(2025, 3, 23), Date(2025, 3, 29),
                       Date(2025, 3, 30) >>

C12_Witness == ExampleRead /\ Len(read_pairs) = 7

\* The year a Timetable_no labels.
LabeledYear ==
    IF csv_row.Timetable_no = << "2", "0", "2", "4", "/", "2", "0", "2", "5" >>
    THEN 2025 ELSE 2026

\* The month field that describes a month: mth00 for the December before the
\* labeled year, mthNN for month NN of the labeled year, none otherwise.
FieldOf(year, month) ==
    IF year = LabeledYear - 1 /\ month = 12 THEN {0}
    ELSE IF year = LabeledYear /\ month \in 1..12 THEN {month}
    ELSE {}

\* The date has a '1' at the position of its day in the field of its month.
IsSet(date) ==
    \E k \in FieldOf(date.year, date.month) :
        /\ date.day \in DOMAIN csv_row.mth[k]
        /\ csv_row.mth[k][date.day] = "1"

\* The date is one of the requested days.
Requested(date) ==
    \/ days_arg.infinite
    \/ /\ <<days_arg.start.year, days_arg.start.month, days_arg.start.day>>
            \in {<<2025, 3, 1>>, <<2024, 12, 2>>}
       /\ IF days_arg.start.year = 2025
          THEN date.year = 2025 /\ date.month = 3 /\ date.day \in 1..15
          ELSE \/ date.year = 2024 /\ date.month = 12 /\ date.day \in 2..31
               \/ date.year = 2025 /\ date.month = 1
               \/ date.year = 2025 /\ date.month = 2 /\ date.day = 1

\* The dates a pair may be read for.
SomeDates ==
    {Date(year, month, day) : year \in 2023..2027, month \in 0..13, day \in 0..33}

\* A train number with '/' written as '-'.
Dashed(nr) == [i \in DOMAIN nr |-> IF nr[i] = "/" THEN "-" ELSE nr[i]]

\* C18: read_all yields a pair for a date exactly when the field of the
\* date's month has '1' at the position of its day and the date is one of
\* `days`; no pair comes from a position beyond a field's length; and the
\* trip ids of a pair are the train numbers with '/' written as '-', behind
\* the ISO date and '_'.
C18_ReadAllYieldsSetDays ==
    pcR = "read" =>
        /\ Range(ReadDates) \subseteq SomeDates
        /\ \A date \in SomeDates :
            date \in Range(ReadDates) <=> (IsSet(date) /\ Requested(date))
        /\ \A n \in DOMAIN read_pairs :
            LET date == read_pairs[n].day
                c == read_pairs[n].connection
            IN  /\ \E k \in 0..12 : date.day \in 1..Len(csv_row.mth[k])
                /\ c.from_trip_id = isoformat(date) \o << "_" >> \o Dashed(csv_row.NrPoc1)
                /\ c.to_trip_id = isoformat(date) \o << "_" >> \o Dashed(csv_row.NrPoc2)

\* A December field of the year before and a field of the labeled year were
\* both read, one of the train numbers having a '/'.
C18_Witness ==
    /\ pcR = "read"
    /\ \E n, m \in DOMAIN read_pairs :
        /\ read_pairs[n].day.year = LabeledYear - 1
        /\ read_pairs[m].day.year = LabeledYear
        /\ read_pairs[n].connection.from_trip_id # read_pairs[n].connection.to_trip_id
    /\ \E i \in DOMAIN csv_row.NrPoc1 : csv_row.NrPoc1[i] = "/"
    /\ ~days_arg.infinite
    /\ \E date \in SomeDates : IsSet(date) /\ ~Requested(date)

-----------------------------------------------------------------------------
(* Properties of the static methods of Connection, under SpecConn *)

\* (from_trip_id, to_trip_id, at_stop_id)
KeyOf(c) == <<c.from_trip_id, c.to_trip_id, c.at_stop_id>>

\* The positions in the given list of the connections with a key.
Listed(key) == {i \in DOMAIN conn_list : KeyOf(conn_list[i]) = key}

\* deduplicate returned one connection for every key of the list and for no
\* other key, with the carriages of all the connections of the key.
OnePerKey ==
    /\ \A i, j \in DOMAIN conn_out : KeyOf(conn_out[i]) = KeyOf(conn_out[j]) => i = j
    /\ {KeyOf(conn_out[j]) : j \in DOMAIN conn_out}
            = {KeyOf(conn_list[i]) : i \in DOMAIN conn_list}
    /\ \A j \in DOMAIN conn_out :
        conn_out[j].carriages
            = UNION {conn_list[i].carriages : i \in Listed(KeyOf(conn_out[j]))}

\* C13, as stated: deduplicate returns one connection per key, with the
\* union of the carriages and the least id of the connections of the key,
\* whatever the order of the list.
C13_DeduplicateKeepsMinimumId ==
    pcC = "deduplicate" =>
        /\ OnePerKey
        /\ \A j \in DOMAIN conn_out :
            \A i \in Listed(KeyOf(conn_out[j])) : conn_out[j].id <= conn_list[i].id

\* C13, amended: deduplicate returns one connection per key, with the union
\* of the carriages and the id of the first connection of the key in the
\* order of the list.
C13_DeduplicateKeepsFirstId ==
    pcC = "deduplicate" =>
        /\ OnePerKey
        /\ \A j \in DOMAIN conn_out :
            \E i \in Listed(KeyOf(conn_out[j])) :
                /\ conn_out[j].id = conn_list[i].id
                /\ \A k \in Listed(KeyOf(conn_out[j])) : i <= k

\* A key was listed twice, the greater id first, with different carriages.
C13_Witness ==
    /\ pcC = "deduplicate"
    /\ \E i, k \in DOMAIN conn_list :
        /\ i < k
        /\ KeyOf(conn_list[i]) = KeyOf(conn_list[k])
        /\ conn_list[i].id > conn_list[k].id
        /\ conn_list[i].carriages # conn_list[k].carriages
    /\ Len(conn_out) < Len(conn_list)

-----------------------------------------------------------------------------
(* Properties of the transaction of execute, under SpecGen *)

\* The ids of the trip copies in the store.
CopyIds(store) == [i \in DOMAIN store.trips |-> store.trips[i].trip_id]

\* C14: over the insert_block_trips calls of a run, the counter of a source
\* trip never decreases and grows with every copy made of it, and the id of
\* every trip copy created differs from the ids of all the copies created
\* before it.
C14_CopyIdsUnique ==
    [][pc = "insert" /\ inserted' = inserted + 1 =>
        /\ \A t \in Trips : trip_copy_counters'[t] >= trip_copy_counters[t]
        /\ \A fails_at \in 0..Len(blocks[inserted + 1].legs) :
            LET st == insert_block_trips(
                        [db |-> db, trip_copy_counters |-> trip_copy_counters,
                         raised |-> "", fails_at |-> fails_at],
                        blocks[inserted + 1])
                ids == CopyIds(st.db)
            IN  /\ SubSeq(ids, 1, Len(db.trips)) = CopyIds(db)
                /\ \A i, j \in DOMAIN ids : ids[i] = ids[j] => i = j
                /\ \A t \in Trips :
                        st.trip_copy_counters[t] >=
                            Cardinality({i \in DOMAIN ids : ids[i][1] = t})]_vars

\* Some trip was copied twice within one block and once more for another
\* block.
C14_Witness ==
    /\ pc = "done"
    /\ \E t \in Trips :
        /\ trip_copy_counters[t] >= 3
        /\ \E k \in DOMAIN blocks :
            Cardinality({i \in DOMAIN blocks[k].legs : blocks[k].legs[i].trip_id = t}) = 2
        /\ Cardinality({i \in DOMAIN db.trips : db.trips[i].trip_id[1] = t}) >= 3

\* C15: when a write of a leg fails during execute, the store holds none of
\* the rows written in the run, those of the blocks before included; when
\* none fails, the store holds the rows of all the blocks.
C15_AllOrNothing ==
    /\ pc = "raised" => db = EmptyDb
    /\ pc = "done" =>
        /\ Len(db.trips) = LegCount(blocks)
        /\ Len(db.transfers) = LegCount(blocks) - Len(blocks)
        /\ \A k \in DOMAIN blocks :
            \A i \in DOMAIN blocks[k].legs :
                CopiesOf(k)[i].trip_id[1] = blocks[k].legs[i].trip_id

\* A write failed after a whole block and the first leg of the next one had
\* been written.
C15_Witness ==
    /\ pc = "raised"
    /\ inserted >= 2
    /\ \E i \in DOMAIN blocks[inserted].legs :
        /\ i >= 2
        /\ trip_copy_counters[blocks[inserted].legs[i].trip_id] >= 1
        /\ \A j \in DOMAIN blocks[inserted].legs :
            blocks[inserted].legs[j].trip_id = blocks[inserted].legs[i].trip_id => j = i
        /\ \A k \in 1..(inserted - 1) : \A j \in DOMAIN blocks[k].legs :
            blocks[k].legs[j].trip_id # blocks[inserted].legs[i].trip_id
    /\ db = EmptyDb

\* The deduplicated connections of the list.
Deduplicated == Range(Connection_deduplicate(conn_list))

\* Two connections share an endpoint trip and a carriage.
Adjacent(a, b) ==
    /\ {a.from_trip_id, a.to_trip_id} \cap {b.from_trip_id, b.to_trip_id} # {}
    /\ a.carriages \cap b.carriages # {}

RECURSIVE ChainedFrom(_, _)
\* The connections of cs that a chain of adjacent pairs links to one of seen.
ChainedFrom(seen, cs) ==
    LET more == {c \in cs \ seen : \E a \in seen : Adjacent(a, c)}
    IN  IF more = {} THEN seen ELSE ChainedFrom(seen \cup more, cs)

ConnectionIdsOf(carriage) ==
    {conn_list[i].id : i \in {n \in DOMAIN conn_list : carriage \in conn_list[n].carriages}}

\* The carriages the connections of the list switch.
UsedCarriages == UNION {conn_list[i].carriages : i \in DOMAIN conn_list}

\* C17: in the classes of get_disjoint_carriage_sets every carriage of the
\* connections is in exactly one class, and two carriages are in the same
\* class exactly when the same connections switch them; carriages whose
\* connections only overlap are in different classes.
C17_CarriageClasses ==
    pcC = "get_disjoint_carriage_sets" =>
        /\ UNION {Range(conn_out[g].value) : g \in DOMAIN conn_out} = UsedCarriages
        /\ \A g, h \in DOMAIN conn_out :
            \A i \in DOMAIN conn_out[g].value, j \in DOMAIN conn_out[h].value :
                conn_out[g].value[i] = conn_out[h].value[j] => (g = h /\ i = j)
        /\ \A x, y \in UsedCarriages :
            (\E g \in DOMAIN conn_out : {x, y} \subseteq Range(conn_out[g].value))
                <=> ConnectionIdsOf(x) = ConnectionIdsOf(y)

\* Two carriages with a connection in common, and one more connection for
\* one of them, are in two classes.
C17_Witness ==
    /\ pcC = "get_disjoint_carriage_sets"
    /\ Len(conn_out) = 2
    /\ \E x, y \in UsedCarriages :
        /\ ConnectionIdsOf(x) \cap ConnectionIdsOf(y) # {}
        /\ ConnectionIdsOf(x) # ConnectionIdsOf(y)

-----------------------------------------------------------------------------
(* Properties of Block.resolve_linear, under SpecGen *)

\* The calls of resolve_linear for the date: the group resolved and the
\* carriage class routed through it.
LinearCalls ==
    {<<i, K>> : i \in {n \in DOMAIN resolved : Len(resolved[n].group) >= 2},
                K \in SUBSET Carriages} \cap
    {<<i, K>> \in (DOMAIN resolved) \X (SUBSET Carriages) : K \in ClassesOf(resolved[i].group)}

\* The connections handed to resolve_linear in a call.
GivenTo(call) ==
    connections_of(resolved[call[1]].group, CHOOSE a \in call[2] : TRUE)

\* The blocks and the errors that came of a call.
BlocksOf(call) ==
    LET Mine(b) == b.carriages = call[2] IN SelectSeq(resolved[call[1]].out.blocks, Mine)

ErrorsOf(call) ==
    LET Mine(e) == e.carriages = call[2] IN SelectSeq(resolved[call[1]].out.logged, Mine)

\* Two of the connections leave the same trip.
SharedFromTrip(cs) ==
    \E m, n \in DOMAIN cs : m # n /\ cs[m].from_trip_id = cs[n].from_trip_id

\* The trips that connections leave and none enters.
InitialTrips(cs) ==
    {cs[n].from_trip_id : n \in DOMAIN cs} \ {cs[n].to_trip_id : n \in DOMAIN cs}

RECURSIVE FollowedFrom(_, _)
\* The connections met by following, from those of seen on, the connection
\* that leaves the trip a connection enters.
FollowedFrom(seen, cs) ==
    LET more == {c \in Range(cs) \ seen : \E a \in seen : a.to_trip_id = c.from_trip_id}
    IN  IF more = {} THEN seen ELSE FollowedFrom(seen \cup more, cs)

\* Some connection is not met on the way from the initial trip.
LeftUnconsumed(cs) ==
    FollowedFrom({c \in Range(cs) : c.from_trip_id \in InitialTrips(cs)}, cs) # Range(cs)

\* The connections, put in some order, lead from trip to trip through
\* len(cs) + 1 different trips.
SimpleChain(cs) ==
    /\ \A m, n \in DOMAIN cs : m # n => cs[m].from_trip_id # cs[n].from_trip_id
    /\ \A m, n \in DOMAIN cs : m # n => cs[m].to_trip_id # cs[n].to_trip_id
    /\ Cardinality(InitialTrips(cs)) = 1
    /\ ~LeftUnconsumed(cs)

\* C19: resolve_linear returns a block only for connections that form one
\* simple chain covering all of them, the block then having one leg more
\* than there are connections; a shared from-trip, no or several initial
\* trips, or a connection the walk leaves unconsumed make it raise
\* NonLinearBlock.
C19_BlockOnlyForSimpleChain ==
    Resolved =>
        \A call \in LinearCalls :
            LET cs == GivenTo(call)
            IN  /\ BlocksOf(call) # <<>> =>
                    /\ SimpleChain(cs)
                    /\ \A n \in DOMAIN BlocksOf(call) :
                            Len(BlocksOf(call)[n].legs) = Len(cs) + 1
                /\ (\/ SharedFromTrip(cs)
                    \/ Cardinality(InitialTrips(cs)) # 1
                    \/ LeftUnconsumed(cs)) =>
                        /\ BlocksOf(call) = <<>>
                        /\ Len(ErrorsOf(call)) = 1

RECURSIVE WalkedFrom(_, _)
\* The pairs (connection followed, next connection) of the walk that has
\* just followed connection a and has the connections of left still to pop.
WalkedFrom(a, left) ==
    IF \E b \in left : b.from_trip_id = a.to_trip_id
    THEN LET b == CHOOSE b \in left : b.from_trip_id = a.to_trip_id
         IN  {<<a, b>>} \cup WalkedFrom(b, left \ {b})
    ELSE {}

\* The pairs of the walk over connections that have unique from-trips and
\* one initial trip.
Walked(cs) ==
    LET first == CHOOSE c \in Range(cs) : c.from_trip_id \in InitialTrips(cs)
    IN  WalkedFrom(first, Range(cs) \ {first})

\* The carriages join the continuing trip at a stop that is not before the
\* stop at which they leave it.
NotForward(pair) ==
    FirstIndex(pair[2].from_trip_id, pair[1].at_stop_id)
        >= FirstIndex(pair[2].from_trip_id, pair[2].at_stop_id)

\* C20: when a step of the walk of resolve_linear finds the next switch stop
\* not strictly after the stop at which the carriages joined the continuing
\* trip, NonLinearBlock is raised and there is no block; every leg of a
\* returned block between the first and the last one has from_stop_sequence
\* strictly less than to_stop_sequence.
C20_WalkGoesForward ==
    Resolved =>
        \A call \in LinearCalls :
            LET cs == GivenTo(call)
            IN  /\ (/\ ~SharedFromTrip(cs)
                    /\ Cardinality(InitialTrips(cs)) = 1
                    /\ \E pair \in Walked(cs) : NotForward(pair)) =>
                        /\ BlocksOf(call) = <<>>
                        /\ Len(ErrorsOf(call)) = 1
                        /\ ErrorsOf(call)[1].reason = "goes backwards"
                /\ \A n \in DOMAIN BlocksOf(call) :
                    LET legs == BlocksOf(call)[n].legs
                    IN  \A i \in 2..(Len(legs) - 1) :
                            /\ legs[i].from_stop_sequence # None
                            /\ legs[i].to_stop_sequence # None
                            /\ legs[i].from_stop_sequence < legs[i].to_stop_sequence

\* In one group the walk for a carriage class joined and left a trip at the
\* same stop and was refused, and the walk for another class gave a block of
\* three legs.
C20_Witness ==
    /\ pc = "done"
    /\ \E call, other \in LinearCalls :
        /\ call[1] = other[1]
        /\ ErrorsOf(call) # <<>>
        /\ ErrorsOf(call)[1].reason = "goes backwards"
        /\ \E pair \in Walked(GivenTo(call)) :
            FirstIndex(pair[2].from_trip_id, pair[1].at_stop_id)
                = FirstIndex(pair[2].from_trip_id, pair[2].at_stop_id)
        /\ BlocksOf(other) # <<>>
        /\ Len(BlocksOf(other)[1].legs) = 3

-----------------------------------------------------------------------------
(* Properties of insert_block_trips, under SpecGen *)

\* The transfers created for the k-th block, in the order they were created.
TransfersOf(k) ==
    SubSeq(db.transfers, LegCount(SubSeq(blocks, 1, k - 1)) - (k - 1) + 1,
                         LegCount(SubSeq(blocks, 1, k)) - k)

\* The blocks whose rows are in the store.
Materialized == IF pc \in {"insert", "done"} THEN 1..inserted ELSE {}

\* C21: for a block of n legs insert_block_trips creates n trip copies in the
\* order of the legs and n - 1 in-seat transfers, the i-th from the copy of
\* leg i to the copy of leg i + 1; the from_stop_id and the to_stop_id of a
\* transfer are the same stop, the last stop of the earlier copy and the
\* first stop of the later copy.
C21_CopiesAndTransfers ==
    /\ pc \in {"insert", "done"} =>
        /\ Len(db.trips) = LegCount(SubSeq(blocks, 1, inserted))
        /\ Len(db.transfers) = LegCount(SubSeq(blocks, 1, inserted)) - inserted
    /\ \A k \in Materialized :
        LET legs == blocks[k].legs
            copies == CopiesOf(k)
            links == TransfersOf(k)
        IN  /\ Len(copies) = Len(legs)
            /\ \A i \in DOMAIN legs : copies[i].trip_id[1] = legs[i].trip_id
            /\ Len(links) = Len(legs) - 1
            /\ \A i \in DOMAIN links :
                LET earlier == StopTimesOf(copies[i].trip_id)
                    later == StopTimesOf(copies[i + 1].trip_id)
                IN  /\ links[i].type = IN_SEAT
                    /\ links[i].from_trip_id = copies[i].trip_id
                    /\ links[i].to_trip_id = copies[i + 1].trip_id
                    /\ links[i].from_stop_id = links[i].to_stop_id
                    /\ links[i].from_stop_id = earlier[Len(earlier)].stop_id
                    /\ links[i].to_stop_id = later[1].stop_id

\* Two blocks are in the store, the second one of three legs with its two
\* transfers.
C21_Witness ==
    /\ pc = "done"
    /\ inserted = 2
    /\ Len(blocks[2].legs) = 3
    /\ Len(TransfersOf(2)) = 2
    /\ TransfersOf(2)[1].from_stop_id # TransfersOf(2)[2].from_stop_id

-----------------------------------------------------------------------------
(* Properties of TripStops.insert_stop, under SpecStops *)

\* The stop-sequence indices inserted for a stop.
InsertedFor(stop_id) ==
    {stop_calls[n].idx : n \in {m \in DOMAIN stop_calls : stop_calls[m].stop_id = stop_id}}

\* C22: after any sequence of insert_stop calls stop_sequence_by_id has
\* exactly the stop ids inserted, each with the smallest stop-sequence index
\* inserted for it.
C22_SmallestIndexKept ==
    /\ DOMAIN stop_index = {stop_calls[n].stop_id : n \in DOMAIN stop_calls}
    /\ \A stop_id \in DOMAIN stop_index :
        /\ stop_index[stop_id] \in InsertedFor(stop_id)
        /\ \A idx \in InsertedFor(stop_id) : stop_index[stop_id] <= idx

-----------------------------------------------------------------------------
(* Properties of the filter of get_blocks_for_day, under SpecDay *)

\* The train has stop-times in the store and one of them is at the stop.
CallsAt(trip_id, stop_id) ==
    /\ trip_id \in DOMAIN StopTimesTable
    /\ \E n \in DOMAIN StopTimesTable[trip_id] : StopTimesTable[trip_id][n].stop_id = stop_id

\* Both trains of the connection are in the store and call at its stop.
IsValid(c) == CallsAt(c.from_trip_id, c.at_stop_id) /\ CallsAt(c.to_trip_id, c.at_stop_id)

\* C23: a connection with a train that has no stop-times in the store, or
\* with a train that does not call at at_stop_id, is in no group that is
\* resolved; every two consecutive legs of a block are joined by a valid
\* connection of the date; and no lookup of a missing trip or stop ends the
\* resolution.
C23_InvalidConnectionsDiscarded ==
    Resolved =>
        /\ \A i \in DOMAIN resolved :
            /\ resolved[i].out.escaped = ""
            /\ \A n \in DOMAIN resolved[i].group : IsValid(resolved[i].group[n])
        /\ UNION {{KeyOf(resolved[i].group[n]) : n \in DOMAIN resolved[i].group} :
                        i \in DOMAIN resolved}
                = {KeyOf(by_day[n]) : n \in {m \in DOMAIN by_day : IsValid(by_day[m])}}
        /\ \A k \in DOMAIN blocks :
            /\ \A i \in DOMAIN blocks[k].legs :
                blocks[k].legs[i].trip_id \in DOMAIN StopTimesTable
            /\ \A i \in 1..(Len(blocks[k].legs) - 1) :
                \E n \in DOMAIN by_day :
                    /\ IsValid(by_day[n])
                    /\ by_day[n].from_trip_id = blocks[k].legs[i].trip_id
                    /\ by_day[n].to_trip_id = blocks[k].legs[i + 1].trip_id
                    /\ blocks[k].carriages \subseteq
                         UNION {by_day[m].carriages :
                                    m \in {j \in DOMAIN by_day : KeyOf(by_day[j]) = KeyOf(by_day[n])}}

\* The date has a connection from a train that is not in the store and one
\* at a stop its train does not call at, both sharing a train and a carriage
\* with a valid connection that was resolved into a block.
C23_Witness ==
    /\ pc = "insert"
    /\ Len(blocks) = 1
    /\ \E a, b, c \in DOMAIN by_day :
        /\ by_day[a].from_trip_id \notin DOMAIN StopTimesTable
        /\ by_day[b].to_trip_id \in DOMAIN StopTimesTable
        /\ by_day[b].from_trip_id \in DOMAIN StopTimesTable
        /\ ~IsValid(by_day[b])
        /\ IsValid(by_day[c])
        /\ by_day[a].to_trip_id = by_day[c].from_trip_id
        /\ by_day[b].from_trip_id = by_day[c].to_trip_id
        /\ by_day[a].carriages = by_day[c].carriages
        /\ by_day[b].carriages = by_day[c].carriages

-----------------------------------------------------------------------------
(* Properties of assign_block_ids, under SpecAssign *)

\* C26: for every in-seat transfer graph of the store, assign_block_ids ends
\* with the adjacency map empty and with every trip of the graph in exactly
\* one (block_id, trip) pair, and never looks up a trip that it has already
\* taken out of the map.
C26_EachTripVisitedOnce ==
    /\ pcA # "KeyError"
    /\ pcA = "done" =>
        /\ linked_trips = <<>>
        /\ \A t \in InSeatTrips :
            Cardinality({n \in DOMAIN assigned_blocks : assigned_blocks[n][2] = t}) = 1
        /\ \A n \in DOMAIN assigned_blocks : assigned_blocks[n][2] \in InSeatTrips

\* The copy of leg i of block k has the rows of its source, with the
\* drop_off_type and the pickup_type that Drop and Pick give for row r.
FlagsAre(k, i, Drop(_, _), Pick(_, _)) ==
    LET source == select_stop_times(blocks[k].legs[i])
        copy == StopTimesOf(CopiesOf(k)[i].trip_id)
    IN  /\ Len(copy) = Len(source)
        /\ \A r \in DOMAIN copy :
            /\ copy[r].stop_id = source[r].stop_id
            /\ copy[r].drop_off_type = Drop(r, source)
            /\ copy[r].pickup_type = Pick(r, source)

\* C27, as stated: of the stop-times of the copies of a block only the final
\* one of the first leg has drop-off forbidden and only the first one of the
\* last leg has pick-up forbidden; every other stop-time keeps the
\* pickup_type and the drop_off_type of its source row.
C27_OnlyBoundaryStopTimes ==
    \A k \in Materialized :
        \A i \in DOMAIN blocks[k].legs :
            LET Drop(r, source) == IF i = 1 /\ r = Len(source)
                                   THEN PassengerExchange_NONE
                                   ELSE source[r].drop_off_type
                Pick(r, source) == IF i = Len(blocks[k].legs) /\ r = 1
                                   THEN PassengerExchange_NONE
                                   ELSE source[r].pickup_type
            IN  FlagsAre(k, i, Drop, Pick)

\* C27, amended: every stop-time of the copy of the first leg has drop-off
\* forbidden and every stop-time of the copy of the last leg has pick-up
\* forbidden; the pickup_type on the first leg, the drop_off_type on the
\* last leg and both on the legs in between are those of the source rows.
C27_WholeBoundaryLegs ==
    \A k \in Materialized :
        \A i \in DOMAIN blocks[k].legs :
            LET Drop(r, source) == IF i = 1
                                   THEN PassengerExchange_NONE
                                   ELSE source[r].drop_off_type
                Pick(r, source) == IF i = Len(blocks[k].legs)
                                   THEN PassengerExchange_NONE
                                   ELSE source[r].pickup_type
            IN  FlagsAre(k, i, Drop, Pick)

\* A block is in the store whose first leg has two stop-times, the earlier
\* one with drop-off allowed in the source and forbidden in the copy, and
\* whose last leg has a later stop-time with pick-up allowed in the source.
C27_Witness ==
    /\ pc = "done"
    /\ \E k \in Materialized :
        LET legs == blocks[k].legs
            first == select_stop_times(legs[1])
            last == select_stop_times(legs[Len(legs)])
        IN  /\ Len(first) >= 2
            /\ first[1].drop_off_type # PassengerExchange_NONE
            /\ Len(last) >= 2
            /\ last[Len(last)].pickup_type # PassengerExchange_NONE
            /\ StopTimesOf(CopiesOf(k)[1].trip_id)[1].drop_off_type = PassengerExchange_NONE

-----------------------------------------------------------------------------
(* Properties of the carriages of the blocks of Block.resolve, under SpecGen *)

\* The connections of group g that join leg j of a block to the next leg.
Joining(g, legs, j) ==
    {c \in Range(g) :
        /\ c.from_trip_id = legs[j].trip_id
        /\ c.to_trip_id = legs[j + 1].trip_id
        /\ FirstIndex(c.from_trip_id, c.at_stop_id) = legs[j].to_stop_sequence
        /\ FirstIndex(c.to_trip_id, c.at_stop_id) = legs[j + 1].from_stop_sequence}

\* C30: every carriage of a block returned by Block.resolve is a carriage of
\* every connection that joins two consecutive legs of the block, and there
\* is such a connection for every two consecutive legs; the blocks returned
\* for one group of several connections have pairwise disjoint carriage sets.
C30_BlockCarriages ==
    Resolved =>
        \A i \in DOMAIN resolved :
            LET g == resolved[i].group
                bs == resolved[i].out.blocks
            IN  /\ \A n \in DOMAIN bs :
                    /\ bs[n].carriages # {}
                    /\ \A j \in 1..(Len(bs[n].legs) - 1) :
                        /\ Joining(g, bs[n].legs, j) # {}
                        /\ \A c \in Joining(g, bs[n].legs, j) :
                                bs[n].carriages \subseteq c.carriages
                /\ \A m, n \in DOMAIN bs :
                    m # n => bs[m].carriages \cap bs[n].carriages = {}

\* A group of several connections gave two blocks, one of three legs for one
\* carriage and one for the other carriage, which not all of the group's
\* connections carry.
C30_Witness ==
    /\ pc = "done"
    /\ \E i \in DOMAIN resolved :
        /\ Len(resolved[i].group) >= 2
        /\ Len(resolved[i].out.blocks) = 2
        /\ \E n \in DOMAIN resolved[i].out.blocks : Len(resolved[i].out.blocks[n].legs) = 3
        /\ \E n \in DOMAIN resolved[i].out.blocks, c \in Range(resolved[i].group) :
                ~(resolved[i].out.blocks[n].carriages \subseteq c.carriages)

-----------------------------------------------------------------------------
(* Properties of FixTimeTravelTransfers *)

\* The time-travelling in-seat transfers of the store execute was given.
TimeTravelling == Range(get_transfers_to_process(fx_input))

\* The in-seat transfers of the store that join the trains of t one day
\* later at the stops of t, soon enough after the from-trip of t.
NextDayTransfers(t) ==
    {u \in Range(fx_input) :
        /\ u.type = IN_SEAT
        /\ TrainKey_extract(u.from_trip_id) = next_day(TrainKey_extract(t.t.from_trip_id))
        /\ TrainKey_extract(u.to_trip_id) = next_day(TrainKey_extract(t.t.to_trip_id))
        /\ u.from_stop_id = t.t.from_stop_id
        /\ u.to_stop_id = t.t.to_stop_id
        /\ t.from_trip_time < get_trip_start(u.to_trip_id) + OneDay}

\* The store has a transfer between the two trips.
Joined(from_trip_id, to_trip_id) ==
    \E u \in Range(fx_transfers) :
        u.from_trip_id = from_trip_id /\ u.to_trip_id = to_trip_id

\* C28: once FixTimeTravelTransfers has run, both trips of every transfer of
\* the store exist, and no trip it removed is the to-trip of a transfer it
\* relinked.
C28_TransfersReferToTrips ==
    pcF = "done" =>
        /\ \A u \in Range(fx_transfers) :
            u.from_trip_id \in fx_trips /\ u.to_trip_id \in fx_trips
        /\ \A u \in Range(fx_fixed) : u.to_trip_id \notin Range(fx_removed)

\* C24: once FixTimeTravelTransfers has run, every time-travelling in-seat
\* transfer A -> B for which the store had an in-seat transfer A' -> B' of
\* the same trains one day later, at the same stops, with A ending before
\* the start of B' plus a day, is replaced by A -> B'.
C24_RelinkedToNextDay ==
    pcF = "done" =>
        \A t \in TimeTravelling : \A u \in NextDayTransfers(t) :
            /\ [t.t EXCEPT !.to_trip_id = u.to_trip_id] \in Range(fx_transfers)
            /\ ~Joined(t.t.from_trip_id, t.t.to_trip_id)

\* The from-trips of the transfers of the store execute was given.
FromTrips == {fx_input[n].from_trip_id : n \in DOMAIN fx_input}

\* C25: once FixTimeTravelTransfers has run, every time-travelling in-seat
\* transfer A -> B that has no next-day transfer to be relinked to is
\* removed, and B is deleted exactly when no transfer starts from B; when
\* execute raises instead, the store is as it was.
C25_UnfixableRemoved ==
    /\ pcF = "done" =>
        \A t \in TimeTravelling :
            NextDayTransfers(t) = {} =>
                /\ ~Joined(t.t.from_trip_id, t.t.to_trip_id)
                /\ t.t.to_trip_id \notin fx_trips <=> t.t.to_trip_id \notin FromTrips
    /\ pcF \notin {"load", "done"} => fx_transfers = fx_input /\ fx_trips = StoreTrips

\* Unfixable transfers of both kinds have been handled: the to-trip of one
\* is deleted, the to-trip of another is kept for the transfer that starts
\* from it.
C25_Witness ==
    /\ pcF = "done"
    /\ \E t \in TimeTravelling :
        NextDayTransfers(t) = {} /\ t.t.to_trip_id \notin fx_trips
    /\ \E t \in TimeTravelling :
        /\ NextDayTransfers(t) = {} /\ t.t.to_trip_id \in FromTrips
        /\ t.t.to_trip_id \in fx_trips

\* C29: when the store has no time-travelling in-seat transfer, execute
\* finishes without raising and leaves trips and transfers as they were.
C29_NothingToFix ==
    (pcF # "load" /\ TimeTravelling = {}) =>
        pcF = "done" /\ fx_transfers = fx_input /\ fx_trips = StoreTrips

=============================================================================
